---- MODULE Spec2Model ----
(***************************************************************************)
(* State-machine model of the SSH MCP gateway (package ssh):               *)
(*   - Manager: alias map, primary, per-alias locks (manager.go)           *)
(*   - Client:  one SSH connection with CWD tracking (client.go)           *)
(*   - Pool:    header-keyed registry with idle reaper (pool section of    *)
(*              src/internal/ssh/client.go)                                *)
(* Lock-protected blocks that do only local work are one atomic action;    *)
(* every lock that is held across a blocking call (per-alias mutex, the    *)
(* Client mutex, the Manager lock while it waits for a Client mutex) is    *)
(* modelled explicitly.                                                    *)
(***************************************************************************)
EXTENDS Integers, Sequences, FiniteSets, TLC

\* ------------------------------------------------------------------ bounds
NumThreads == 2      \* concurrent callers (goroutines serving requests)
NumManagers == 2     \* Manager objects that can exist
MaxClients == 3      \* Client objects that can be allocated
MaxCalls == 4        \* Connect/Disconnect/Close calls the model follows
MaxOps == 3          \* Run and file-operation calls the model follows
MaxSuffix == 3       \* stands for the suffix limit 100 of generateAlias
MaxTransport == 2    \* transports one Client can open (connect + reconnects)
MaxTime == 4         \* clock ticks (seconds) the model follows
Timeout == 1         \* stands for the idle timeout (5 minutes) in ticks

Threads == 1..NumThreads
Managers == 1..NumManagers
ClientIds == 1..MaxClients

\* ------------------------------------------------------- values and inputs
NoEntry == -1        \* alias not in the map
NilClient == 0       \* map entry holding nil: a reservation placeholder
NoThread == 0        \* mutex not held

Users == {"u"}
Hosts == {"h", "g"}
\* Aliases callers name themselves; one of them is also a generated name.
ExplicitAliases == {"a", "u@h-" \o ToString(MaxSuffix)}
HomeDir == "/home/u"
Dirs == {HomeDir, "/tmp"}
Tilde == "~"

Base(username, host) == username \o "@" \o host
Candidate(base, i) == base \o "-" \o ToString(i)
AutoHosts == {"h"}   \* hosts that callers connect to without naming an alias
AutoAliases == UNION {{Base(u, h)} \cup {Candidate(Base(u, h), i) : i \in 2..MaxSuffix}
                      : <<u, h>> \in Users \X AutoHosts}
Aliases == ExplicitAliases \cup AutoAliases
Vias == {"", "u@h"}
Targets == {"", "primary", "a", "u@h"}
OneManager == {m \in Managers : m = 1}

\* Commands a caller runs: a directory change or a command that stays put.
Cmds == {[cd |-> "/tmp"], [cd |-> ""]}

\* Error values are the message as a sequence of fragments, so that the
\* substring test of isConnectionError is a test on the fragments.
NoErr == <<>>
ErrNotConnected == <<"not connected">>
ErrCanceled == <<"context canceled">>
ErrDeadline == <<"context deadline exceeded">>
ErrSession(e) == <<"failed to create session: ">> \o e
ErrCommand(e) == <<"command failed: ">> \o e
ErrReconnect(e) == <<"reconnect failed: ">> \o e
ErrDial == <<"failed to connect: ", "dial tcp: ", "connection refused">>
ErrJump == <<"jump host not connected">>
TransportErrs == {<<"EOF">>, <<"read tcp: ", "connection reset", " by peer">>,
                  <<"write tcp: ", "broken pipe">>,
                  <<"dial tcp: ", "connection refused">>,
                  <<"ssh: unexpected packet">>}
RunErrs == {ErrCanceled, ErrDeadline}
             \cup {ErrSession(e) : e \in {<<"EOF">>, <<"ssh: unexpected packet">>}}
             \cup {ErrCommand(e) : e \in TransportErrs}

\* ------------------------------------------------------------------- state
VARIABLES
  connections,   \* Manager.connections: [Managers -> [Aliases -> NoEntry | NilClient | ClientIds]]
  primary,       \* Manager.primary
  aliasLocks,    \* Manager.aliasLocks: [Managers -> [Aliases -> 0 | lock object]]
  mu,            \* Manager.mu when held across a blocking call: holder thread or NoThread
  clients,       \* the Client objects: [ClientIds -> record]
  nextClient,    \* next Client object to allocate
  cmu,           \* Client.mu: holder thread or NoThread
  locked,        \* the per-alias mutexes that are locked: <<manager, alias, lock object>>
  pc,            \* position of each thread
  lv,            \* locals of the call each thread is in (arguments, results)
  headerCache,   \* Pool.headerCache: [Keys -> 0 | Managers] (entry owning that Manager)
  lastAccessed,  \* sessionEntry.lastAccessed of the entry of each Manager
  nextMgr,       \* next Manager object to allocate
  closeCount,    \* calls of Manager.Close on each Manager
  stopCleanup,   \* Pool.stopCleanup is closed
  reaper,        \* the cleanupLoop goroutine: position and locals of reap
  now,           \* time.Now().Unix()
  managers,      \* Pool.managers: [SessionIds -> 0 | Managers]
  globalMode,    \* Pool.globalMode
  global,        \* Pool.global: 0 (nil) or the global Manager
  calls          \* calls made so far

mgrVars == <<connections, primary, aliasLocks, mu, clients, nextClient, cmu, locked>>
poolVars == <<headerCache, lastAccessed, nextMgr, closeCount, stopCleanup, reaper, now,
              managers, globalMode, global>>
others == <<poolVars, calls>>
vars == <<connections, primary, aliasLocks, mu, clients, nextClient, cmu, locked, pc, lv,
          headerCache, lastAccessed, nextMgr, closeCount, stopCleanup, reaper, now,
          managers, globalMode, global, calls>>

\* --------------------------------------------------------------- helpers
NoRes == [stdout |-> "", exit |-> 0, cwd |-> "", ranIn |-> ""]

\* Locals of a thread that is in no call.
Idle == [op |-> "", m |-> 0, target |-> "", alias |-> "", host |-> "", user |-> "",
         via |-> "", reserved |-> FALSE, client |-> 0, jump |-> 0, cmd |-> [cd |-> ""],
         err |-> NoErr, res |-> NoRes, execs |-> 0, reconns |-> 0, lock |-> 0,
         todo |-> {}, path |-> "", chan |-> 0, key |-> "", signal |-> "",
         sync |-> FALSE, dest |-> "", sid |-> "",
         result |-> [Stdout |-> <<>>, Stderr |-> <<>>, ExitCode |-> 0], output |-> <<>>,
         cwd |-> [abs |-> TRUE, elems |-> <<>>], resolved |-> [abs |-> TRUE, elems |-> <<>>],
         opts |-> [Password |-> "", PrivateKeyPath |-> ""],
         creds |-> [Password |-> "", PrivateKey |-> "nil"], auth |-> <<>>,
         args |-> [tool |-> "", required |-> <<>>, target |-> <<>>],
         arg |-> <<>>, edit |-> [operation |-> "", path |-> <<>>, text |-> <<>>, with |-> <<>>, line |-> 0, end |-> 0],
         ctx |-> [err |-> NoErr, at |-> ""]]

NewClientRec == [alias |-> "", m |-> 0, host |-> "", user |-> "", via |-> "",
                 conn |-> 0, dials |-> 0, cwd |-> "", sftp |-> 0, through |-> 0]

MuFree(m) == mu[m] = NoThread

\* A caller starts a call (the model follows MaxCalls of them).
Called == /\ calls < MaxCalls
          /\ calls' = calls + 1

\* The same for commands and file operations (MaxOps of them).
CalledOp == /\ calls < MaxOps
            /\ calls' = calls + 1

\* The value a Go map lookup yields: nil for a missing key and for a placeholder.
Lookup(m, alias) == IF connections[m][alias] = NoEntry THEN NilClient ELSE connections[m][alias]

LiveAliases(conns) == {a \in Aliases : conns[a] > NilClient}

\* A call returns: lv holds what the call returned until the caller takes it.
Return(t, l) == /\ pc' = [pc EXCEPT ![t] = "done"]
                /\ lv' = [lv EXCEPT ![t] = l]

Goto(t, label, l) == /\ pc' = [pc EXCEPT ![t] = label]
                     /\ lv' = [lv EXCEPT ![t] = l]

\* The caller takes the result and is ready for its next call.
Finish(t) ==
  /\ pc[t] = "done"
  /\ pc' = [pc EXCEPT ![t] = "idle"]
  /\ lv' = [lv EXCEPT ![t] = Idle]
  /\ UNCHANGED mgrVars
  /\ UNCHANGED others

\* ------------------------------------------------------ Manager.generateAlias
\* generateAlias without the reservation: the name is returned, nothing is written.
NoReserve(conns, alias) == conns

\* The placeholder entry written under the Manager lock.
Reserve(conns, alias) == [conns EXCEPT ![alias] = NilClient]

\* The name generateAlias picks: base, else the first free base-i for
\* i = 2 .. limit-1, else base-limit whether it is free or not.
generateAlias(conns, username, host) ==
  LET base == Base(username, host)
      free == {i \in 2..(MaxSuffix - 1) : conns[Candidate(base, i)] = NoEntry}
  IN IF conns[base] = NoEntry THEN base
     ELSE IF free # {} THEN Candidate(base, CHOOSE i \in free : \A j \in free : i <= j)
     ELSE Candidate(base, MaxSuffix)

\* ------------------------------------------------------------ Manager.Connect
\* Lines 343-356: default port, generateAlias when the alias is omitted, and
\* the via = alias check (which returns before the cleanup defer is set up).
ConnectCall(t, m, host, alias, via) ==
  /\ pc[t] = "idle"
  /\ LET user == "u"
         auto == alias = ""
         a == IF auto THEN generateAlias(connections[m], user, host) ELSE alias
         l == [Idle EXCEPT !.op = "Connect", !.m = m, !.host = host, !.user = user,
                           !.via = via, !.alias = a, !.reserved = auto]
     IN /\ auto => MuFree(m)
        /\ connections' = IF auto THEN [connections EXCEPT ![m] = Reserve(@, a)]
                          ELSE connections
        /\ IF via = a
           THEN Return(t, [l EXCEPT !.alias = "", !.err = <<"'via' cannot be the same as 'alias'">>])
           ELSE Goto(t, "c_reserve", l)
  /\ UNCHANGED <<primary, aliasLocks, mu, clients, nextClient, cmu, locked>>
  /\ Called
  /\ UNCHANGED poolVars
\* A check that takes the alias whatever the map holds for it.
ConnectReserveAnyway(t) ==
  /\ pc[t] = "c_reserve"
  /\ MuFree(lv[t].m)
  /\ connections' = [connections EXCEPT ![lv[t].m] = Reserve(@, lv[t].alias)]
  /\ Goto(t, "c_prep", lv[t])
  /\ UNCHANGED <<primary, aliasLocks, mu, clients, nextClient, cmu, locked>>
  /\ UNCHANGED others

\* Lines 358-378: the alias check and reservation under the Manager lock.
ConnectReserve(t) ==
  /\ pc[t] = "c_reserve"
  /\ LET l == lv[t]
         m == l.m
         existing == connections[m][l.alias]
     IN /\ MuFree(m)
        /\ IF existing > NilClient
           THEN /\ UNCHANGED connections
                /\ IF clients[existing].host = l.host /\ clients[existing].user = l.user
                   THEN Return(t, l)
                   ELSE Return(t, [l EXCEPT !.alias = "", !.err = <<"alias already exists">>])
           ELSE IF existing = NilClient /\ ~l.reserved
           THEN /\ UNCHANGED connections
                /\ Return(t, [l EXCEPT !.alias = "", !.err = <<"alias is currently connecting/reserved">>])
           ELSE /\ connections' = IF existing = NoEntry
                                  THEN [connections EXCEPT ![m] = Reserve(@, l.alias)]
                                  ELSE connections
                /\ Goto(t, "c_prep", l)
  /\ UNCHANGED <<primary, aliasLocks, mu, clients, nextClient, cmu, locked>>
  /\ UNCHANGED others

\* Lines 392-427: credentials (the key file may be unreadable) and the jump
\* host lookup under the read lock.
ConnectPrep(t, keyOk) ==
  /\ pc[t] = "c_prep"
  /\ LET l == lv[t]
         jump == IF l.via = "" THEN NilClient ELSE Lookup(l.m, l.via)
     IN IF ~keyOk
        THEN Goto(t, "c_cleanup", [l EXCEPT !.err = <<"failed to read private key">>])
        ELSE /\ MuFree(l.m)
             /\ IF l.via # "" /\ jump = NilClient
                THEN Goto(t, "c_cleanup", [l EXCEPT !.err = <<"jump host not connected">>])
                ELSE Goto(t, "c_dial", [l EXCEPT !.jump = jump])
  /\ UNCHANGED mgrVars
  /\ UNCHANGED others

\* Client.connect, lines 82-118 of client.go: the working directory a fresh
\* transport reports ("~" when the initial pwd fails).
InitialCwd(pwdOk) == IF pwdOk THEN HomeDir ELSE Tilde

\* Lines 429-432 with NewClient / Client.connect: the handshake, through the
\* jump Client's transport when a jump Client was passed (client.go 85-102),
\* else directly (103-108); "through" records which Client's transport
\* carries the new one (0: dialed directly).
ConnectDial(t, ok, pwdOk) ==
  /\ pc[t] = "c_dial"
  /\ LET l == lv[t]
     IN IF l.jump # NilClient /\ clients[l.jump].conn = 0
        THEN /\ Goto(t, "c_cleanup", [l EXCEPT !.err = ErrJump])
             /\ UNCHANGED <<clients, nextClient>>
        ELSE IF ~ok
        THEN /\ Goto(t, "c_cleanup", [l EXCEPT !.err = ErrDial])
             /\ UNCHANGED <<clients, nextClient>>
        ELSE /\ nextClient <= MaxClients
             /\ clients' = [clients EXCEPT ![nextClient] =
                              [alias |-> l.alias, m |-> l.m, host |-> l.host, user |-> l.user,
                               via |-> l.via, conn |-> 1, dials |-> 1,
                               cwd |-> InitialCwd(pwdOk), sftp |-> 0, through |-> l.jump]]
             /\ nextClient' = nextClient + 1
             /\ Goto(t, "c_store", [l EXCEPT !.client = nextClient])
  /\ UNCHANGED <<connections, primary, aliasLocks, mu, cmu, locked>>
  /\ UNCHANGED others

\* A store that makes every new Client the primary.
SetPrimaryAlways(p, alias) == alias

\* Lines 434-441: the Client is stored and becomes primary when there is none.
SetPrimary(p, alias) == IF p = "" THEN alias ELSE p

ConnectStore(t) ==
  /\ pc[t] = "c_store"
  /\ LET l == lv[t]
     IN /\ MuFree(l.m)
        /\ connections' = [connections EXCEPT ![l.m][l.alias] = l.client]
        /\ primary' = [primary EXCEPT ![l.m] = SetPrimary(@, l.alias)]
        /\ Return(t, l)
  /\ UNCHANGED <<aliasLocks, mu, clients, nextClient, cmu, locked>>
  /\ UNCHANGED others

\* Lines 381-390: the deferred cleanup of the reservation on error.
ConnectCleanup(t) ==
  /\ pc[t] = "c_cleanup"
  /\ LET l == lv[t]
     IN /\ MuFree(l.m)
        /\ connections' = IF connections[l.m][l.alias] = NilClient
                          THEN [connections EXCEPT ![l.m][l.alias] = NoEntry]
                          ELSE connections
        /\ Return(t, [l EXCEPT !.alias = ""])
  /\ UNCHANGED <<primary, aliasLocks, mu, clients, nextClient, cmu, locked>>
  /\ UNCHANGED others

\* ---------------------------------------------------------------- Client.Close
\* client.go lines 242-258: the SFTP sub-channel and the transport are dropped.
ClientClose(c) == [c EXCEPT !.sftp = 0, !.conn = 0]

\* --------------------------------------------------------- Manager.Disconnect
\* Lines 445-465: the Manager lock is taken and kept until the call returns;
\* an unknown alias fails at once.
DisconnectCall(t, m, alias) ==
  /\ pc[t] = "idle"
  /\ MuFree(m)
  /\ LET l == [Idle EXCEPT !.op = "Disconnect", !.m = m, !.target = alias]
     IN IF alias # "" /\ connections[m][alias] = NoEntry
        THEN /\ Return(t, [l EXCEPT !.err = <<"no connection with alias">>])
             /\ UNCHANGED mu
        ELSE /\ mu' = [mu EXCEPT ![m] = t]
             /\ Goto(t, "d_close",
                     [l EXCEPT !.todo = IF alias = ""
                                        THEN {a \in Aliases : connections[m][a] # NoEntry}
                                        ELSE {alias}])
  /\ UNCHANGED <<connections, primary, aliasLocks, clients, nextClient, cmu, locked>>
  /\ Called
  /\ UNCHANGED poolVars

\* Lines 451-457 and 467-470: one entry is closed (Client.Close waits for the
\* Client mutex) and deleted.
DisconnectClose(t) ==
  /\ pc[t] = "d_close"
  /\ lv[t].op = "Disconnect"
  /\ \E a \in lv[t].todo :
       LET m == lv[t].m
           c == connections[m][a]
       IN /\ c > NilClient => cmu[c] = NoThread
          /\ clients' = IF c > NilClient THEN [clients EXCEPT ![c] = ClientClose(@)] ELSE clients
          /\ connections' = [connections EXCEPT ![m][a] = NoEntry]
          /\ Goto(t, "d_close", [lv[t] EXCEPT !.todo = @ \ {a}])
  /\ UNCHANGED <<primary, aliasLocks, mu, nextClient, cmu, locked>>
  /\ UNCHANGED others

\* Lines 458 and 472-480: the values primary can take after alias was removed:
\* empty after a disconnect of everything; after the primary was removed, any
\* alias that is still live (map iteration order), empty when there is none.
Promote(p, conns, alias) ==
  IF alias = "" THEN {""}
  ELSE IF p # alias THEN {p}
  ELSE IF LiveAliases(conns) = {} THEN {""}
  ELSE LiveAliases(conns)

\* A deferred unlock that leaves the Manager lock with its holder.
stillHeld(t) == t

\* Line 447 (788): defer m.mu.Unlock(), the lock has no holder again.
Unlocked(t) == NoThread

DisconnectDone(t) ==
  /\ pc[t] = "d_close"
  /\ lv[t].op = "Disconnect"
  /\ lv[t].todo = {}
  /\ LET m == lv[t].m
     IN /\ \E p \in Promote(primary[m], connections[m], lv[t].target) :
             primary' = [primary EXCEPT ![m] = p]
        /\ mu' = [mu EXCEPT ![m] = Unlocked(t)]
        /\ Return(t, lv[t])
  /\ UNCHANGED <<connections, aliasLocks, clients, nextClient, cmu, locked>>
  /\ UNCHANGED others

\* -------------------------------------------------------------- Manager.Close
\* Lines 786-797. The Manager lock is kept while every live Client is closed.
MgrCloseCall(t, m) ==
  /\ pc[t] = "idle"
  /\ MuFree(m)
  /\ mu' = [mu EXCEPT ![m] = t]
  /\ Goto(t, "d_close", [Idle EXCEPT !.op = "Close", !.m = m,
                                     !.todo = LiveAliases(connections[m])])
  /\ UNCHANGED <<connections, primary, aliasLocks, clients, nextClient, cmu, locked>>
  /\ Called
  /\ UNCHANGED poolVars

MgrCloseClient(t) ==
  /\ pc[t] = "d_close"
  /\ lv[t].op = "Close"
  /\ \E a \in lv[t].todo :
       LET c == connections[lv[t].m][a]
       IN /\ cmu[c] = NoThread
          /\ clients' = [clients EXCEPT ![c] = ClientClose(@)]
          /\ Goto(t, "d_close", [lv[t] EXCEPT !.todo = @ \ {a}])
  /\ UNCHANGED <<connections, primary, aliasLocks, mu, nextClient, cmu, locked>>
  /\ UNCHANGED others

MgrCloseDone(t) ==
  /\ pc[t] = "d_close"
  /\ lv[t].op = "Close"
  /\ lv[t].todo = {}
  /\ LET m == lv[t].m
     IN /\ connections' = [connections EXCEPT ![m] = [a \in Aliases |-> NoEntry]]
        /\ primary' = [primary EXCEPT ![m] = ""]
        /\ mu' = [mu EXCEPT ![m] = Unlocked(t)]
        /\ closeCount' = [closeCount EXCEPT ![m] = @ + 1]
        /\ Return(t, lv[t])
  /\ UNCHANGED <<aliasLocks, clients, nextClient, cmu, locked>>
  /\ UNCHANGED <<headerCache, lastAccessed, nextMgr, stopCleanup, reaper, now, calls, managers, globalMode, global>>

\* ------------------------------------------------------ Manager.resolveTarget
\* A resolution that takes every named target for an alias of the Manager.
resolveAnyTarget(m, target) ==
  IF target # "" /\ target # "primary" THEN target ELSE primary[m]

\* Lines 486-505: the alias a target names, "" when it names none.
resolveTarget(m, target) ==
  IF target # "" /\ target # "primary"
  THEN IF connections[m][target] = NoEntry THEN "" ELSE target
  ELSE primary[m]

resolveTargetErr(m, target) ==
  IF target # "" /\ target # "primary" THEN <<"no connection with alias">>
  ELSE <<"no active connection">>

\* ------------------------------------------------------- Manager.getAliasLock
\* A lock table that hands out a new lock object on every call.
freshAliasLock(table, alias) == table[alias] + 1

\* Lines 292-303: the lock object of the alias, created on first use and kept.
getAliasLock(table, alias) == IF table[alias] # 0 THEN table[alias] ELSE 1

\* ------------------------------------------------------------- Manager.Run
\* A classification that takes every error for a lost channel.
anyError(err) == TRUE

\* isConnectionError, lines 552-561: the message contains one of four texts.
isConnectionError(err) ==
  \E i \in DOMAIN err : err[i] \in {"connection reset", "broken pipe", "EOF", "connection refused"}

\* Line 509: resolveTarget.
RunCall(t, m, target, cmd) ==
  /\ pc[t] = "idle"
  /\ MuFree(m)
  /\ LET alias == resolveTarget(m, target)
         l == [Idle EXCEPT !.op = "Run", !.m = m, !.cmd = cmd, !.alias = alias]
     IN IF alias = ""
        THEN Return(t, [l EXCEPT !.err = resolveTargetErr(m, target)])
        ELSE Goto(t, "getlock", l)
  /\ UNCHANGED mgrVars
  /\ CalledOp
  /\ UNCHANGED poolVars

\* Lines 514, 653, 689, 725: getAliasLock under the Manager lock.
GetLock(t) ==
  /\ pc[t] = "getlock"
  /\ LET l == lv[t]
         id == getAliasLock(aliasLocks[l.m], l.alias)
     IN /\ MuFree(l.m)
        /\ aliasLocks' = [aliasLocks EXCEPT ![l.m][l.alias] = id]
        /\ Goto(t, "lock", [l EXCEPT !.lock = id])
  /\ UNCHANGED <<connections, primary, mu, clients, nextClient, cmu, locked>>
  /\ UNCHANGED others

LockOf(l) == <<l.m, l.alias, l.lock>>

\* Lines 515, 654, 690, 726: lock.Lock() waits until the mutex is free.
AliasLock(t) ==
  /\ pc[t] = "lock"
  /\ LockOf(lv[t]) \notin locked
  /\ locked' = locked \cup {LockOf(lv[t])}
  /\ Goto(t, "lookup", lv[t])
  /\ UNCHANGED <<connections, primary, aliasLocks, mu, clients, nextClient, cmu>>
  /\ UNCHANGED others

\* A return that leaves the mutex of the alias locked.
keepLocked(t) == UNCHANGED locked

\* The deferred lock.Unlock() of a call that returns.
Unlock(t) == locked' = locked \ {LockOf(lv[t])}

\* Lines 518-524: the Client of the alias, read under the read lock.
RunLookup(t) ==
  /\ pc[t] = "lookup"
  /\ lv[t].op = "Run"
  /\ LET l == lv[t]
         c == Lookup(l.m, l.alias)
     IN /\ MuFree(l.m)
        /\ IF c = NilClient
           THEN /\ Return(t, [l EXCEPT !.err = <<"connection not found">>])
                /\ Unlock(t)
           ELSE /\ Goto(t, "run", [l EXCEPT !.client = c])
                /\ UNCHANGED locked
  /\ UNCHANGED <<connections, primary, aliasLocks, mu, clients, nextClient, cmu>>
  /\ UNCHANGED others

\* What Manager.Run does with the outcome of an execution (lines 526-538):
\* the first execution's channel-loss error leads to the reconnect, every
\* other outcome, and every outcome of the retry, is returned.
AfterRun(t, l, err, res) ==
  IF pc[t] \in {"run", "exec"} /\ err # NoErr /\ isConnectionError(err)
  THEN /\ Goto(t, "reconnect", l)
       /\ UNCHANGED locked
  ELSE /\ Return(t, [l EXCEPT !.err = err, !.res = res])
       /\ Unlock(t)

\* Client.Run lines 138-143: the Client mutex is taken; without a transport
\* the call fails at once.
ClientRunBegin(t) ==
  /\ pc[t] \in {"run", "retry"}
  /\ LET l == lv[t]
         c == l.client
     IN /\ cmu[c] = NoThread
        /\ IF clients[c].conn = 0
           THEN /\ AfterRun(t, l, ErrNotConnected, NoRes)
                /\ UNCHANGED cmu
           ELSE /\ cmu' = [cmu EXCEPT ![c] = t]
                /\ Goto(t, IF pc[t] = "run" THEN "exec" ELSE "reexec",
                        [l EXCEPT !.execs = @ + 1])
                /\ UNCHANGED locked
  /\ UNCHANGED <<connections, primary, aliasLocks, mu, clients, nextClient>>
  /\ UNCHANGED others

\* The wrapped command of Client.Run (lines 146-149 and 193-201):
\*   cd "<cwd>" && <cmd>; ...; pwd
\* run in a fresh session, which starts in the home directory. cd "~" fails
\* (no tilde expansion inside quotes), so the command is skipped and pwd
\* reports the home directory.
RanIn(cwd) == IF cwd \in Dirs THEN cwd ELSE ""
FinalDir(cwd, cmd) == IF cwd \notin Dirs THEN HomeDir
                      ELSE IF cmd.cd # "" THEN cmd.cd ELSE cwd

\* A cancellation that leaves the remote process running.
noSignal(err) == ""

\* Lines 176-180: when the context is done before the output is complete,
\* session.Signal(ssh.SIGKILL) is sent to the remote process.
killSignal(err) == IF err \in {ErrCanceled, ErrDeadline} THEN "KILL" ELSE ""

\* Lines 151-209: the execution ends, with a result or with an error.
ClientRunEnd(t, err, exit) ==
  /\ pc[t] \in {"exec", "reexec"}
  /\ LET l == lv[t]
         c == l.client
         old == clients[c].cwd
         new == FinalDir(old, l.cmd)
     IN /\ cmu' = [cmu EXCEPT ![c] = NoThread]
        /\ IF err = NoErr
           THEN /\ clients' = [clients EXCEPT ![c].cwd = new]
                /\ AfterRun(t, l, NoErr,
                            [stdout |-> IF RanIn(old) # "" /\ l.cmd.cd = "" THEN old ELSE "",
                             exit |-> IF RanIn(old) = "" THEN 1 ELSE exit,
                             cwd |-> new, ranIn |-> RanIn(old)])
           ELSE /\ UNCHANGED clients
                /\ AfterRun(t, [l EXCEPT !.signal = killSignal(err)], err, NoRes)
  /\ UNCHANGED <<connections, primary, aliasLocks, mu, nextClient>>
  /\ UNCHANGED others

\* Lines 530 and 542-549 with Client.connect lines 54-60: the jump Client is
\* looked up, the Client mutex is taken and the old transport is dropped.
RunReconnect(t) ==
  /\ pc[t] = "reconnect"
  /\ LET l == lv[t]
         c == l.client
         via == clients[c].via
     IN /\ MuFree(l.m)
        /\ cmu[c] = NoThread
        /\ cmu' = [cmu EXCEPT ![c] = t]
        /\ clients' = [clients EXCEPT ![c].conn = 0]
        /\ Goto(t, "redial", [l EXCEPT !.jump = IF via = "" THEN NilClient ELSE Lookup(l.m, via),
                                       !.reconns = @ + 1])
  /\ UNCHANGED <<connections, primary, aliasLocks, mu, nextClient, locked>>
  /\ UNCHANGED others

\* Client.connect lines 82-122 on an existing Client: a new transport and the
\* working directory it reports; the other fields stay.
Reconnected(c, pwdOk) == [c EXCEPT !.conn = c.dials + 1, !.dials = c.dials + 1,
                                   !.cwd = InitialCwd(pwdOk)]

RunRedial(t, ok, pwdOk) ==
  /\ pc[t] = "redial"
  /\ LET l == lv[t]
         c == l.client
     IN /\ cmu' = [cmu EXCEPT ![c] = NoThread]
        /\ IF l.jump # NilClient /\ clients[l.jump].conn = 0
           THEN /\ Return(t, [l EXCEPT !.err = ErrReconnect(ErrJump)])
                /\ Unlock(t)
                /\ UNCHANGED clients
           ELSE IF ~ok
           THEN /\ Return(t, [l EXCEPT !.err = ErrReconnect(ErrDial)])
                /\ Unlock(t)
                /\ UNCHANGED clients
           ELSE /\ clients[c].dials < MaxTransport
                /\ clients' = [clients EXCEPT ![c] = [Reconnected(@, pwdOk) EXCEPT !.through = l.jump]]
                /\ Goto(t, "retry", l)
                /\ UNCHANGED locked
  /\ UNCHANGED <<connections, primary, aliasLocks, mu, nextClient>>
  /\ UNCHANGED others
\* The context of a Run (part_007 line 508) ends while the call is under way:
\* the caller cancels the request or its deadline passes. ctx.Err() is the
\* error from then on; at is the place the call had reached.
Cancel(t, err) ==
  /\ pc[t] \notin {"idle", "done"}
  /\ lv[t].op = "Run"
  /\ lv[t].ctx.err = NoErr
  /\ lv' = [lv EXCEPT ![t].ctx = [err |-> err, at |-> pc[t]]]
  /\ UNCHANGED pc
  /\ UNCHANGED mgrVars
  /\ UNCHANGED others

\* Client.Run lines 174-181: the select returns ctx.Err() only when the
\* context is done; when the output is complete as well, either case is taken.
ClientRunSelect(t, exit) ==
  \/ ClientRunEnd(t, NoErr, exit)
  \/ lv[t].ctx.err # NoErr /\ ClientRunEnd(t, lv[t].ctx.err, 0)

\* ------------------------------------------------------------ Manager.Execute
\* part_007 lines 564-597. Texts are sequences of bytes; the byte limit
\* (51200 in the code) is scaled to maxBytes.
maxBytes == 20
NoOutput == <<"(", "N", "o", " ", "o", "u", "t", "p", "u", "t", ")">>
ExitCode(n) == <<"[", "E", "x", "i", "t", " ", "C", "o", "d", "e", ":", " ">> \o <<ToString(n)>> \o <<"]">>
Truncated == <<"\n", ".", ".", ".", " ", "[", "O", "u", "t", "p", "u", "t", " ", "t", "r", "u", "n", "c", "a", "t", "e", "d", "]">>

\* Lines 570-580: stdout, then stderr, on a new line when stdout came first.
Merged(result) ==
  result.Stdout \o (IF result.Stderr = <<>> THEN <<>>
                    ELSE (IF result.Stdout # <<>> THEN <<"\n">> ELSE <<>>) \o result.Stderr)

\* Lines 582-596, on the result of a Run that returned no error.
Execute(result) ==
  IF Merged(result) = <<>> THEN NoOutput
  ELSE LET outputStr == Merged(result) \o (IF result.ExitCode # 0
                                           THEN <<"\n">> \o ExitCode(result.ExitCode)
                                           ELSE <<>>)
       IN IF Len(outputStr) > maxBytes
          THEN SubSeq(outputStr, 1, maxBytes) \o Truncated
          ELSE outputStr

\* Execute after its Run has returned the result held in the locals.
ExecuteFormat(t) ==
  /\ pc[t] = "format"
  /\ Return(t, [lv[t] EXCEPT !.output = Execute(lv[t].result)])
  /\ UNCHANGED mgrVars
  /\ UNCHANGED others

\* ------------------------------------- Manager.ReadFile / WriteFile / ListDir
FileOps == {"ReadFile", "WriteFile", "ListDir"}
Paths == {"f", "/etc/f"}
IsAbs(path) == path \in {"/etc/f"}

\* resolvePath, lines 601-616: a relative path is joined onto the CWD of the
\* alias's Client ("/" when the alias has none).
resolvePath(cwd, path) == IF IsAbs(path) THEN path ELSE cwd \o "/" \o path

\* Lines 646-649 (682-685, 718-721): resolveTarget.
FileCall(t, m, kind, target, path) ==
  /\ pc[t] = "idle"
  /\ MuFree(m)
  /\ LET alias == resolveTarget(m, target)
         l == [Idle EXCEPT !.op = kind, !.m = m, !.path = path, !.alias = alias]
     IN IF alias = ""
        THEN Return(t, [l EXCEPT !.err = resolveTargetErr(m, target)])
        ELSE Goto(t, "path", l)
  /\ UNCHANGED mgrVars
  /\ CalledOp
  /\ UNCHANGED poolVars

\* Line 651 (687, 723): resolvePath reads the Client's CWD, under the Client
\* mutex and before the per-alias lock is taken.
FilePath(t) ==
  /\ pc[t] = "path"
  /\ LET l == lv[t]
         c == Lookup(l.m, l.alias)
     IN /\ MuFree(l.m)
        /\ c # NilClient => cmu[c] = NoThread
        /\ Goto(t, "getlock",
                [l EXCEPT !.path = resolvePath(IF c = NilClient THEN "" ELSE clients[c].cwd, l.path)])
  /\ UNCHANGED mgrVars
  /\ UNCHANGED others

\* Lines 657-659: the Client of the alias; the calls that follow use it
\* without a nil check, so a missing Client is a nil dereference (the deferred
\* unlock still runs).
FileLookup(t) ==
  /\ pc[t] = "lookup"
  /\ lv[t].op \in FileOps
  /\ LET l == lv[t]
         c == Lookup(l.m, l.alias)
     IN /\ MuFree(l.m)
        /\ IF c = NilClient
           THEN /\ Return(t, [l EXCEPT !.err = <<"panic: nil pointer dereference">>])
                /\ Unlock(t)
           ELSE /\ Goto(t, "sftp", [l EXCEPT !.client = c])
                /\ UNCHANGED locked
  /\ UNCHANGED <<connections, primary, aliasLocks, mu, clients, nextClient, cmu>>
  /\ UNCHANGED others

\* Client.SFTP, client.go lines 220-239: the memoized sub-channel, or a new
\* one opened on the current transport.
FileSftp(t, ok) ==
  /\ pc[t] = "sftp"
  /\ LET l == lv[t]
         c == l.client
     IN /\ cmu[c] = NoThread
        /\ IF clients[c].conn = 0
           THEN /\ Return(t, [l EXCEPT !.err = ErrNotConnected])
                /\ Unlock(t)
                /\ UNCHANGED clients
           ELSE IF clients[c].sftp # 0
           THEN /\ Goto(t, "io", [l EXCEPT !.chan = clients[c].sftp])
                /\ UNCHANGED <<clients, locked>>
           ELSE IF ~ok
           THEN /\ Return(t, [l EXCEPT !.err = <<"failed to create SFTP client">>])
                /\ Unlock(t)
                /\ UNCHANGED clients
           ELSE /\ clients' = [clients EXCEPT ![c].sftp = clients[c].conn]
                /\ Goto(t, "io", [l EXCEPT !.chan = clients[c].conn])
                /\ UNCHANGED locked
  /\ UNCHANGED <<connections, primary, aliasLocks, mu, nextClient, cmu>>
  /\ UNCHANGED others

\* Lines 666-677 (702-713, 738-757): the SFTP transfer; it fails when the
\* remote side refuses it or the sub-channel's transport is gone.
FileIO(t, ok) ==
  /\ pc[t] = "io"
  /\ LET l == lv[t]
         alive == clients[l.client].conn = l.chan
     IN /\ Return(t, IF ok /\ alive THEN l ELSE [l EXCEPT !.err = <<"failed to open file">>])
        /\ Unlock(t)
  /\ UNCHANGED <<connections, primary, aliasLocks, mu, clients, nextClient, cmu>>
  /\ UNCHANGED others

\* -------------------------------------------------------- Manager.resolvePath
\* part_007 lines 599-616 on paths as filepath sees them: a path is absolute
\* or not and has a sequence of elements. (resolvePath above is the same
\* function on the texts of paths that hold no "." and no "..".)
\* filepath.Clean: "." is dropped, ".." drops the element before it, is
\* dropped itself at the root and stays at the start of a relative path.
RECURSIVE CleanElems(_, _, _)
CleanElems(abs, elems, out) ==
  IF elems = <<>> THEN out
  ELSE LET e == Head(elems)
           rest == Tail(elems)
       IN IF e = "." THEN CleanElems(abs, rest, out)
          ELSE IF e # ".." THEN CleanElems(abs, rest, Append(out, e))
          ELSE IF out # <<>> /\ out[Len(out)] # ".."
               THEN CleanElems(abs, rest, SubSeq(out, 1, Len(out) - 1))
          ELSE IF abs THEN CleanElems(abs, rest, out)
          ELSE CleanElems(abs, rest, Append(out, ".."))

\* The empty relative path is ".".
Clean(path) ==
  LET out == CleanElems(path.abs, path.elems, <<>>)
  IN [abs |-> path.abs, elems |-> IF ~path.abs /\ out = <<>> THEN <<".">> ELSE out]

\* filepath.Join of a non-empty first path and a relative second one.
Join(cwd, path) == Clean([abs |-> cwd.abs, elems |-> cwd.elems \o path.elems])

\* Lines 610-615: a path that is not absolute is joined onto cwd; the result
\* is cleaned. Nothing is refused.
resolved(cwd, path) == Clean(IF path.abs THEN path ELSE Join(cwd, path))

\* resolvePath on the CWD and the path held in the locals.
ResolvePathStep(t) ==
  /\ pc[t] = "resolve"
  /\ Return(t, [lv[t] EXCEPT !.resolved = resolved(lv[t].cwd, lv[t].path)])
  /\ UNCHANGED mgrVars
  /\ UNCHANGED others
\* ----------------------------------------------------------- authentication
\* Manager.Connect, src/unnamed/part_007 lines 392-417, and Client.connect,
\* src/internal/ssh/client.go lines 68-78. A signer is "explicit" (parsed from
\* the file at PrivateKeyPath), "system" (the Key Store's), or "nil".

\* Lines 392-398: the password of the options is copied in every case.
Credentials(opts) == [Password |-> opts.Password, PrivateKey |-> "nil"]

\* Lines 400-417: the key file when a path is given; the Key Store's key only
\* when neither a path nor a password is given. Reading, parsing and loading
\* can fail (ok).
ConnectCreds(t) ==
  /\ pc[t] = "creds"
  /\ LET opts == lv[t].opts
         creds == Credentials(opts)
     IN \E ok \in BOOLEAN :
          IF opts.PrivateKeyPath # ""
          THEN IF ok
               THEN /\ pc' = [pc EXCEPT ![t] = "auth"]
                    /\ lv' = [lv EXCEPT ![t].creds = [creds EXCEPT !.PrivateKey = "explicit"]]
               ELSE Return(t, [lv[t] EXCEPT !.err = <<"failed to read private key: ">>])
          ELSE IF opts.Password = ""
          THEN IF ok
               THEN /\ pc' = [pc EXCEPT ![t] = "auth"]
                    /\ lv' = [lv EXCEPT ![t].creds = [creds EXCEPT !.PrivateKey = "system"]]
               ELSE Return(t, [lv[t] EXCEPT !.err = <<"no auth provided and system key unavailable: ">>])
          ELSE /\ ok
               /\ pc' = [pc EXCEPT ![t] = "auth"]
               /\ lv' = [lv EXCEPT ![t].creds = creds]
  /\ UNCHANGED <<connections, primary, aliasLocks, mu, clients, nextClient, cmu, locked>>
  /\ UNCHANGED others

\* client.go lines 68-73: the public-key method when there is a signer, and
\* the password method when there is a password, in this order.
authMethods(creds) ==
  (IF creds.PrivateKey # "nil" THEN <<[method |-> "publickey", key |-> creds.PrivateKey]>> ELSE <<>>)
  \o (IF creds.Password # "" THEN <<[method |-> "password", key |-> creds.Password]>> ELSE <<>>)

\* client.go lines 68-78: no method at all is an error; otherwise the methods
\* become config.Auth.
ClientAuth(t) ==
  /\ pc[t] = "auth"
  /\ LET methods == authMethods(lv[t].creds)
     IN IF Len(methods) = 0
        THEN Return(t, [lv[t] EXCEPT !.err = <<"no authentication method provided (key or password required)">>])
        ELSE Return(t, [lv[t] EXCEPT !.auth = methods])
  /\ UNCHANGED <<connections, primary, aliasLocks, mu, clients, nextClient, cmu, locked>>
  /\ UNCHANGED others
\* ------------------------------------------------------------ tool handlers
\* The handlers of src/internal/tools on the Manager getManager gave them. An
\* argument of a request is <<value>>, or <<>> when the request omits it.
\* RequireString yields the zero value and an error for an omitted argument;
\* GetString yields the default.
RequireString(arg, zero) ==
  IF arg = <<>> THEN [value |-> zero, err |-> <<"required argument not found">>]
  ELSE [value |-> arg[1], err |-> NoErr]
GetString(arg, default) == IF arg = <<>> THEN default ELSE arg[1]

\* createRunHandler, core.go lines 136-150 (command, _ := ...: the error of
\* RequireString is dropped), with the resolveTarget that opens Manager.Run.
RunHandler(t, m, args) ==
  /\ pc[t] = "idle"
  /\ MuFree(m)
  /\ LET command == RequireString(args.required, [cd |-> ""]).value
         target == GetString(args.target, "primary")
         alias == resolveTarget(m, target)
         l == [Idle EXCEPT !.op = "Run", !.m = m, !.cmd = command, !.alias = alias,
                           !.args = args]
     IN IF alias = ""
        THEN Return(t, [l EXCEPT !.err = resolveTargetErr(m, target)])
        ELSE Goto(t, "getlock", l)
  /\ UNCHANGED mgrVars
  /\ CalledOp
  /\ UNCHANGED poolVars

\* createReadHandler, files.go lines 136-139 (path, _ := ...), with the
\* resolveTarget that opens Manager.ReadFile.
ReadHandler(t, m, args) ==
  /\ pc[t] = "idle"
  /\ MuFree(m)
  /\ LET path == RequireString(args.required, "").value
         target == GetString(args.target, "primary")
         alias == resolveTarget(m, target)
         l == [Idle EXCEPT !.op = "ReadFile", !.m = m, !.path = path, !.alias = alias,
                           !.args = args]
     IN IF alias = ""
        THEN Return(t, [l EXCEPT !.err = resolveTargetErr(m, target)])
        ELSE Goto(t, "path", l)
  /\ UNCHANGED mgrVars
  /\ CalledOp
  /\ UNCHANGED poolVars
\* ------------------------------------------------------------ shell quoting
\* src/internal/tools/utils.go. A string is the sequence of its characters
\* (a run of ordinary characters may stand as one element). Quote is ',
\* DQuote is ", Backslash is \, Newline is the line feed.
Quote == "'"
DQuote == "\""
Backslash == "\\"
Newline == "\n"

\* strings.ReplaceAll for a one-character old; strings.NewReplacer with
\* one-character olds is the same substitution, character by character.
RECURSIVE ReplaceEach(_, _)
ReplaceEach(s, new) ==
  IF s = <<>> THEN <<>> ELSE new[Head(s)] \o ReplaceEach(Tail(s), new)

\* A quoting that wraps the text and leaves its single quotes alone.
wrapOnly(s) == <<Quote>> \o s \o <<Quote>>

\* shellQuote, lines 7-15.
shellQuote(s) ==
  IF s = <<>> THEN <<Quote, Quote>>
  ELSE <<Quote>>
       \o ReplaceEach(s, [c \in STRING |-> IF c = Quote
                                           THEN <<Quote, DQuote, Quote, DQuote, Quote>>
                                           ELSE <<c>>])
       \o <<Quote>>

\* The words and operators a POSIX shell reads from a command text. In '...'
\* every character is literal; in "..." and outside quotes $ starts an
\* expansion and \ quotes the next character; outside quotes a blank ends a
\* word and ; & | > < and the line feed are operators. A text that ends
\* inside quotes is an error.
Operators == {";", "&", "|", ">", "<", Newline}
Word(chars) == [kind |-> "word", text |-> chars]
Operator(c) == [kind |-> "operator", text |-> <<c>>]
Expansion == "${}"
Unterminated == [kind |-> "error", text |-> <<>>]
Flush(out, word, open) == IF open THEN Append(out, Word(word)) ELSE out

RECURSIVE ShellRead(_, _, _, _, _)
ShellRead(text, mode, word, open, out) ==
  IF text = <<>>
  THEN IF mode # "" THEN Append(Flush(out, word, open), Unterminated)
       ELSE Flush(out, word, open)
  ELSE LET c == Head(text)
           rest == Tail(text)
       IN IF mode = Quote
          THEN IF c = Quote THEN ShellRead(rest, "", word, TRUE, out)
               ELSE ShellRead(rest, mode, Append(word, c), TRUE, out)
          ELSE IF mode = DQuote /\ c = DQuote THEN ShellRead(rest, "", word, TRUE, out)
          ELSE IF mode = "" /\ c \in {Quote, DQuote} THEN ShellRead(rest, c, word, TRUE, out)
          ELSE IF c = "$" THEN ShellRead(rest, mode, Append(word, Expansion), TRUE, out)
          ELSE IF c = Backslash /\ rest # <<>> /\ (mode = "" \/ Head(rest) \in {"$", DQuote, Backslash})
               THEN ShellRead(Tail(rest), mode, Append(word, Head(rest)), TRUE, out)
          ELSE IF mode = "" /\ c = " " THEN ShellRead(rest, mode, <<>>, FALSE, Flush(out, word, open))
          ELSE IF mode = "" /\ c \in Operators
               THEN ShellRead(rest, mode, <<>>, FALSE, Append(Flush(out, word, open), Operator(c)))
          ELSE ShellRead(rest, mode, Append(word, c), TRUE, out)

Shell(text) == ShellRead(text, "", <<>>, FALSE, <<>>)

\* shellQuote applied to the string in the locals.
ShellQuoteStep(t) ==
  /\ pc[t] = "quote"
  /\ Return(t, [lv[t] EXCEPT !.output = shellQuote(lv[t].arg)])
  /\ UNCHANGED mgrVars
  /\ UNCHANGED others
\* ------------------------------------------------------------- edit handler
\* utils.go lines 27-71: the escapes for the parts of a sed script. Each puts
\* a backslash before the characters it names; the line feed becomes \n.
EscapeWith(s, olds) ==
  ReplaceEach(s, [c \in STRING |-> IF c = Newline THEN <<Backslash, "n">>
                                   ELSE IF c \in olds THEN <<Backslash, c>> ELSE <<c>>])
sedEscapeLiteral(s) == EscapeWith(s, {Backslash, "/", "&", ".", "*", "[", "]", "^", "$"})
sedEscapePattern(s) == EscapeWith(s, {"/"})
sedEscapeReplacement(s) == EscapeWith(s, {Backslash, "/", "&"})
sedEscapeInsertText(s) == EscapeWith(s, {})

\* A sed script between single quotes, as the format strings put it.
inQuotes(script) == <<Quote>> \o script \o <<Quote>>
Sed(flags, script, path) ==
  <<"sed", " ", "-i", " ">> \o flags \o script \o <<" ">> \o shellQuote(path)
    \o <<" ", "2", ">", "&", "1">>

\* createEditHandler, files.go lines 200-307: the command for the operation,
\* or <<>> when the handler returns an error instead. e holds the arguments:
\* text is old_text (replace), pattern (regex, delete, replace_line) or
\* content (insert, append, prepend); with is new_text, replacement, content
\* (replace_line) or pattern (append, prepend). The global flag has its default.
EditCommand(e) ==
  LET op == e.operation
  IN IF op = "replace"
     THEN IF e.text = <<>> THEN <<>>
          ELSE Sed(<<>>, inQuotes(<<"s", "/">> \o sedEscapeLiteral(e.text) \o <<"/">>
                                 \o sedEscapeReplacement(e.with) \o <<"/">>), e.path)
     ELSE IF op = "regex"
     THEN IF e.text = <<>> THEN <<>>
          ELSE Sed(<<"-E", " ">>, inQuotes(<<"s", "/">> \o sedEscapePattern(e.text) \o <<"/">>
                                         \o sedEscapeReplacement(e.with) \o <<"/", "g">>), e.path)
     ELSE IF op = "insert"
     THEN IF e.line <= 0 \/ e.text = <<>> THEN <<>>
          ELSE Sed(<<>>, inQuotes(<<ToString(e.line), "i", Backslash>> \o sedEscapeInsertText(e.text)),
                   e.path)
     ELSE IF op \in {"append", "prepend"}
     THEN IF e.text = <<>> THEN <<>>
          ELSE IF e.with # <<>>
          THEN Sed(<<>>, inQuotes(<<"/">> \o sedEscapePattern(e.with)
                                 \o <<"/", IF op = "append" THEN "a" ELSE "i", Backslash>>
                                 \o sedEscapeInsertText(e.text)), e.path)
          ELSE IF op = "append"
          THEN <<"printf", " ", Quote, Backslash, "n", "%s", Quote, " ">> \o shellQuote(e.text)
                 \o <<" ", ">", ">", " ">> \o shellQuote(e.path) \o <<" ", "2", ">", "&", "1">>
          ELSE Sed(<<>>, inQuotes(<<"1", "i", Backslash>> \o sedEscapeInsertText(e.text)), e.path)
     ELSE IF op = "delete"
     THEN IF e.text # <<>>
          THEN Sed(<<>>, inQuotes(<<"/">> \o sedEscapePattern(e.text) \o <<"/", "d">>), e.path)
          ELSE IF e.line > 0 /\ e.end > 0
          THEN Sed(<<>>, inQuotes(<<ToString(e.line), ",", ToString(e.end), "d">>), e.path)
          ELSE IF e.line > 0
          THEN Sed(<<>>, inQuotes(<<ToString(e.line), "d">>), e.path)
          ELSE <<>>
     ELSE IF op = "replace_line"
     THEN IF e.text = <<>> THEN <<>>
          ELSE Sed(<<"-E", " ">>, inQuotes(<<"s", "/">> \o sedEscapePattern(e.text) \o <<"/">>
                                         \o sedEscapeReplacement(e.with) \o <<"/">>), e.path)
     ELSE <<>>

\* Lines 200-314: the handler composes the command and hands it to Execute,
\* or returns its error.
EditCompose(t) ==
  /\ pc[t] = "edit"
  /\ LET cmd == EditCommand(lv[t].edit)
     IN Return(t, IF cmd = <<>> THEN [lv[t] EXCEPT !.err = <<"is required for operation">>]
                  ELSE [lv[t] EXCEPT !.output = cmd])
  /\ UNCHANGED mgrVars
  /\ UNCHANGED others

\* ------------------------------------------------------------ sync handler
\* createSyncHandler, src/internal/tools/files.go lines 378-401: ReadFile on
\* the source alias, then WriteFile of the content on the destination alias.
\* Lines 385-390: the arguments, and the start of ReadFile (resolveTarget).
SyncCall(t, m, source, dest, path) ==
  /\ pc[t] = "idle"
  /\ MuFree(m)
  /\ LET alias == resolveTarget(m, source)
         l == [Idle EXCEPT !.op = "ReadFile", !.m = m, !.path = path, !.alias = alias,
                           !.sync = TRUE, !.dest = dest]
     IN IF alias = ""
        THEN Return(t, [l EXCEPT !.err = resolveTargetErr(m, source)])
        ELSE Goto(t, "path", l)
  /\ UNCHANGED mgrVars
  /\ CalledOp
  /\ UNCHANGED poolVars

\* Lines 391-397: a failed read ends the handler; else WriteFile starts on
\* the destination (resolveTarget), after ReadFile has returned and released
\* the source's lock.
SyncWrite(t) ==
  /\ pc[t] = "done"
  /\ lv[t].dest # ""
  /\ LET l == lv[t]
         alias == resolveTarget(l.m, l.dest)
     IN IF l.err # NoErr
        THEN Return(t, [l EXCEPT !.dest = ""])
        ELSE /\ MuFree(l.m)
             /\ IF alias = ""
                THEN Return(t, [l EXCEPT !.op = "WriteFile", !.dest = "",
                                         !.err = resolveTargetErr(l.m, l.dest)])
                ELSE Goto(t, "path", [l EXCEPT !.op = "WriteFile", !.dest = "", !.alias = alias,
                                               !.client = 0, !.lock = 0, !.chan = 0])
  /\ UNCHANGED mgrVars
  /\ UNCHANGED others

\* -------------------------------------------------------------------- Pool
\* Header-keyed mode of the Pool, client.go lines 285-599. An entry is named by
\* the Manager it owns (0: no entry). The sections under headerCacheMu do
\* only local work, or close Managers no caller is inside, and are one step.
Keys == {"foo", "bar"}

\* MCP session IDs.
SessionIds == {"s1", "s2"}

PoolIdle == [pc |-> "wait", toRemove |-> {}, mgr |-> 0]

\* An age test that finds every entry expired.
alwaysExpired(m) == TRUE

\* sessionEntry.age() > p.timeout, lines 319-321 with 524 and 537.
Expired(m) == now - lastAccessed[m] > Timeout

\* A second look at the registry that never finds the entry.
noRecheck(cache, key) == 0

\* Line 407: the look at the registry after the write lock was taken.
slowEntry(cache, key) == cache[key]

\* A reaper that leaves the entry in the registry.
keepEntry(cache, key) == cache

\* Line 538: delete(p.headerCache, key).
removeEntry(cache, key) == [cache EXCEPT ![key] = 0]

\* A shutdown that keeps the registry.
keepCache(cache) == cache

\* Line 590: p.headerCache = make(map[string]*sessionEntry).
resetCache(cache) == [k \in Keys |-> 0]

\* Manager.Close (part_007 lines 786-797) on each Manager of ms, called from
\* the Pool: it waits for the Manager lock and for the mutex of every Client
\* it closes.
CloseManagers(ms) ==
  /\ \A m \in ms : MuFree(m)
  /\ \A c \in ClientIds :
       (clients[c].m \in ms /\ connections[clients[c].m][clients[c].alias] = c)
         => cmu[c] = NoThread
  /\ clients' = [c \in ClientIds |->
                   IF clients[c].m \in ms /\ connections[clients[c].m][clients[c].alias] = c
                   THEN ClientClose(clients[c]) ELSE clients[c]]
  /\ connections' = [m \in Managers |->
                       IF m \in ms THEN [a \in Aliases |-> NoEntry] ELSE connections[m]]
  /\ primary' = [m \in Managers |-> IF m \in ms THEN "" ELSE primary[m]]
  /\ closeCount' = [m \in Managers |-> IF m \in ms THEN closeCount[m] + 1 ELSE closeCount[m]]
  /\ UNCHANGED <<aliasLocks, mu, nextClient, cmu, locked>>

\* GetByHeader lines 384-395: global mode returns the global Manager and an
\* empty key returns nil; else the fast path reads the registry under the read lock. l holds the locals of
\* the caller (the key among them).
GetByHeaderFast(t, l) ==
  IF globalMode
  THEN Return(t, [l EXCEPT !.m = global])
  ELSE IF l.key = ""
  THEN Return(t, [l EXCEPT !.m = 0])
  ELSE LET entry == headerCache[l.key]
       IN Goto(t, IF entry # 0 THEN "g_touch" ELSE "g_slow", [l EXCEPT !.m = entry])

GetByHeaderCall(t, key) ==
  /\ pc[t] = "idle"
  /\ GetByHeaderFast(t, [Idle EXCEPT !.op = "GetByHeader", !.key = key])
  /\ Called
  /\ UNCHANGED mgrVars
  /\ UNCHANGED poolVars

\* Lines 397-401: the entry found is touched, outside the lock, and its
\* Manager is returned.
GetByHeaderTouch(t) ==
  /\ pc[t] = "g_touch"
  /\ lastAccessed' = [lastAccessed EXCEPT ![lv[t].m] = now]
  /\ Return(t, lv[t])
  /\ UNCHANGED mgrVars
  /\ UNCHANGED <<headerCache, nextMgr, closeCount, stopCleanup, reaper, now, calls, managers, globalMode, global>>

\* A Pool that hands the first Manager object to every key.
sameManager(n) == 1

\* Line 416: mgr := NewManager("", "/"), a new object (the n-th).
NewManager(n) == n

\* Lines 403-420: under the write lock the registry is read again; an entry
\* that appeared is touched and returned, else a Manager is created.
GetByHeaderSlow(t) ==
  /\ pc[t] = "g_slow"
  /\ LET l == lv[t]
         entry == slowEntry(headerCache, l.key)
     IN IF entry # 0
        THEN /\ lastAccessed' = [lastAccessed EXCEPT ![entry] = now]
             /\ Return(t, [l EXCEPT !.m = entry])
             /\ UNCHANGED <<headerCache, nextMgr>>
        ELSE /\ nextMgr <= NumManagers
             /\ headerCache' = [headerCache EXCEPT ![l.key] = NewManager(nextMgr)]
             /\ lastAccessed' = [lastAccessed EXCEPT ![NewManager(nextMgr)] = now]
             /\ nextMgr' = nextMgr + 1
             /\ Return(t, [l EXCEPT !.m = NewManager(nextMgr)])
  /\ UNCHANGED mgrVars
  /\ UNCHANGED <<closeCount, stopCleanup, reaper, now, calls, managers, globalMode, global>>

\* cleanupLoop lines 506-511 and reap lines 520-528: the ticker fires and the
\* first pass collects the keys of the expired entries under the read lock.
\* The ticker's phase is unknown to the callers, so it may fire at any time
\* (also together with stopCleanup: select then picks either case).
ReapCollect ==
  /\ reaper.pc = "wait"
  /\ reaper' = [pc |-> "remove", mgr |-> 0,
                toRemove |-> {k \in Keys : headerCache[k] # 0 /\ Expired(headerCache[k])}]
  /\ UNCHANGED mgrVars
  /\ UNCHANGED <<pc, lv, headerCache, lastAccessed, nextMgr, closeCount, stopCleanup, now, calls, managers, globalMode, global>>

\* Lines 531-545: the next key of the list; under the write lock the entry is
\* removed when it is still there and still expired. An empty list ends reap.
ReapRemove ==
  /\ reaper.pc = "remove"
  /\ IF reaper.toRemove = {}
     THEN /\ reaper' = PoolIdle
          /\ UNCHANGED headerCache
     ELSE \E key \in reaper.toRemove :
            LET entry == headerCache[key]
                rest == reaper.toRemove \ {key}
            IN IF entry # 0 /\ Expired(entry)
               THEN /\ headerCache' = removeEntry(headerCache, key)
                    /\ reaper' = [pc |-> "close", toRemove |-> rest, mgr |-> entry]
               ELSE /\ reaper' = [pc |-> "remove", toRemove |-> rest, mgr |-> 0]
                    /\ UNCHANGED headerCache
  /\ UNCHANGED mgrVars
  /\ UNCHANGED <<pc, lv, lastAccessed, nextMgr, closeCount, stopCleanup, now, calls, managers, globalMode, global>>

\* Lines 547-549: the removed entry's Manager is closed outside the lock.
ReapClose ==
  /\ reaper.pc = "close"
  /\ CloseManagers({reaper.mgr})
  /\ reaper' = [reaper EXCEPT !.pc = "remove", !.mgr = 0]
  /\ UNCHANGED <<pc, lv, headerCache, lastAccessed, nextMgr, stopCleanup, now, calls, managers, globalMode, global>>

\* cleanupLoop lines 507-508: stopCleanup is closed and the loop returns.
ReaperStop ==
  /\ reaper.pc = "wait"
  /\ stopCleanup
  /\ reaper' = [reaper EXCEPT !.pc = "stopped"]
  /\ UNCHANGED mgrVars
  /\ UNCHANGED <<pc, lv, headerCache, lastAccessed, nextMgr, closeCount, stopCleanup, now, calls, managers, globalMode, global>>

\* A test of the stop channel that never finds it closed.
neverClosed(ch) == FALSE

\* Pool.Close line 563: case <-p.stopCleanup is ready when the channel is closed.
alreadyClosed(ch) == ch

\* Pool.Close lines 562-565: a closed stopCleanup means Close ran already.
PoolCloseCall(t) ==
  /\ pc[t] = "idle"
  /\ IF alreadyClosed(stopCleanup)
     THEN Return(t, [Idle EXCEPT !.op = "PoolClose"])
     ELSE Goto(t, "p_stop", [Idle EXCEPT !.op = "PoolClose"])
  /\ Called
  /\ UNCHANGED mgrVars
  /\ UNCHANGED poolVars

\* Lines 566-567: close(p.stopCleanup); closing a channel that another Close
\* has closed since the test panics.
PoolCloseStop(t) ==
  /\ pc[t] = "p_stop"
  /\ IF stopCleanup
     THEN /\ Return(t, [lv[t] EXCEPT !.err = <<"panic: close of closed channel">>])
          /\ UNCHANGED stopCleanup
     ELSE /\ stopCleanup' = TRUE
          /\ Goto(t, "p_global", lv[t])
  /\ UNCHANGED mgrVars
  /\ UNCHANGED <<headerCache, lastAccessed, nextMgr, closeCount, reaper, now, calls, managers, globalMode, global>>

\* Lines 570-573: the global Manager, if there is one, is closed.
PoolCloseGlobal(t) ==
  /\ pc[t] = "p_global"
  /\ CloseManagers({global} \ {0})
  /\ Goto(t, "p_sessions", lv[t])
  /\ UNCHANGED <<headerCache, lastAccessed, nextMgr, stopCleanup, reaper, now, calls,
                 managers, globalMode, global>>

\* Lines 575-581: under managersMu every Manager of the session registry is
\* closed and the registry is replaced by an empty one.
PoolCloseSessions(t) ==
  /\ pc[t] = "p_sessions"
  /\ CloseManagers({managers[id] : id \in SessionIds} \ {0})
  /\ managers' = [id \in SessionIds |-> 0]
  /\ Goto(t, "p_header", lv[t])
  /\ UNCHANGED <<headerCache, lastAccessed, nextMgr, stopCleanup, reaper, now, calls,
                 globalMode, global>>

\* Lines 583-591: under the write lock every Manager of the header registry
\* is closed and the registry is replaced by an empty one.
PoolCloseHeader(t) ==
  /\ pc[t] = "p_header"
  /\ CloseManagers({headerCache[k] : k \in Keys} \ {0})
  /\ headerCache' = resetCache(headerCache)
  /\ Return(t, lv[t])
  /\ UNCHANGED <<lastAccessed, nextMgr, stopCleanup, reaper, now, calls, managers, globalMode, global>>
\* ------------------------------------------- Pool: session-id and global mode
NoReaper == [pc |-> "none", toRemove |-> {}, mgr |-> 0]

\* A NewPool that starts the cleanup goroutine in every mode.
alwaysCleanup(mode) == PoolIdle

\* NewPool lines 356-363: go pool.cleanupLoop() only when not in global mode.
startCleanup(mode) == IF mode THEN NoReaper ELSE PoolIdle

\* NewPool lines 347-366: empty registries, an open stop channel; global mode
\* creates the global Manager (the first Manager object).
NewPool(mode) ==
  /\ managers = [id \in SessionIds |-> 0]
  /\ headerCache = [k \in Keys |-> 0]
  /\ globalMode = mode
  /\ global = (IF mode THEN 1 ELSE 0)
  /\ nextMgr = (IF mode THEN 2 ELSE 1)
  /\ stopCleanup = FALSE
  /\ reaper = startCleanup(mode)

\* Pool.Get lines 369-378: the global Manager, or what the session registry
\* holds for the ID (nil when it holds nothing).
Get(sessionID) == IF globalMode THEN global ELSE managers[sessionID]

\* A test of the session registry that never finds the ID.
noSession(ms, sessionID) == FALSE

\* CreateSession line 473: _, exists := p.managers[sessionID].
exists(ms, sessionID) == ms[sessionID] # 0

\* CreateSession lines 465-479, one step under managersMu.
CreateSession(t, l) ==
  /\ IF globalMode \/ exists(managers, l.sid)
     THEN UNCHANGED <<managers, nextMgr>>
     ELSE /\ nextMgr <= NumManagers
          /\ managers' = [managers EXCEPT ![l.sid] = nextMgr]
          /\ nextMgr' = nextMgr + 1
  /\ Return(t, [l EXCEPT !.op = "CreateSession"])
  /\ UNCHANGED mgrVars
  /\ UNCHANGED <<headerCache, lastAccessed, closeCount, stopCleanup, reaper, now, globalMode, global>>

\* DestroySession lines 482-498, one step under managersMu: the Manager of the
\* ID is closed (Manager.Close waits for the Manager's lock) and its entry is
\* deleted.
DestroySession(t, l) ==
  /\ IF globalMode \/ managers[l.sid] = 0
     THEN /\ UNCHANGED mgrVars
          /\ UNCHANGED <<managers, closeCount>>
     ELSE /\ CloseManagers({managers[l.sid]})
          /\ managers' = [managers EXCEPT ![l.sid] = 0]
  /\ Return(t, [l EXCEPT !.op = "DestroySession"])
  /\ UNCHANGED <<headerCache, lastAccessed, nextMgr, stopCleanup, reaper, now, globalMode, global>>

\* TouchHeader lines 425-436: nothing in global mode; else the fast path as in
\* GetByHeader, and then lines 432-456: touch the entry found or create one.
TouchHeader(t, l) ==
  /\ IF globalMode
     THEN Return(t, [l EXCEPT !.op = "TouchHeader"])
     ELSE LET entry == headerCache[l.key]
          IN Goto(t, IF entry # 0 THEN "g_touch" ELSE "g_slow",
                  [l EXCEPT !.op = "TouchHeader", !.m = entry])
  /\ UNCHANGED mgrVars
  /\ UNCHANGED poolVars

\* ReleaseHeader lines 460-462 does nothing.
ReleaseHeader(t, l) ==
  /\ Return(t, [l EXCEPT !.op = "ReleaseHeader"])
  /\ UNCHANGED mgrVars
  /\ UNCHANGED poolVars

\* The context of a request: the X-Session-Key value ("" when the header is
\* absent) and the MCP session ID.
Ctx(sessionKey, sessionID) == [Idle EXCEPT !.key = sessionKey, !.sid = sessionID]

\* A registration that looks at no header.
ignoreKey(sessionKey) == ""

\* part_000 line 171 and core.go line 214: the header value when it is a
\* non-empty string.
headerKey(sessionKey) == sessionKey

\* OnRegisterSession hook, part_000 lines 167-181.
RegisterSession(t, sessionKey, sessionID) ==
  /\ pc[t] = "idle"
  /\ IF headerKey(sessionKey) # ""
     THEN TouchHeader(t, Ctx(sessionKey, sessionID))
     ELSE CreateSession(t, Ctx(sessionKey, sessionID))
  /\ Called

\* OnUnregisterSession hook, part_000 lines 183-195.
UnregisterSession(t, sessionKey, sessionID) ==
  /\ pc[t] = "idle"
  /\ IF sessionKey # ""
     THEN ReleaseHeader(t, Ctx(sessionKey, sessionID))
     ELSE DestroySession(t, Ctx(sessionKey, sessionID))
  /\ Called

\* core.go lines 131-134: a handler that got no Manager answers with this.
ErrNoSession == <<"No active session">>
sessionErr(mgr) == IF mgr = 0 THEN ErrNoSession ELSE NoErr

\* getManager, core.go lines 212-225: the header-keyed Manager when the
\* request carries a key, else the Manager of the session ID, and the
\* handler's test of the Manager it got.
getManager(t, sessionKey, sessionID) ==
  /\ pc[t] = "idle"
  /\ IF sessionKey # ""
     THEN /\ GetByHeaderFast(t, [Ctx(sessionKey, sessionID) EXCEPT !.op = "GetByHeader"])
          /\ UNCHANGED mgrVars
          /\ UNCHANGED poolVars
     ELSE /\ Return(t, [Ctx(sessionKey, sessionID) EXCEPT !.op = "Get", !.m = Get(sessionID),
                                                          !.err = sessionErr(Get(sessionID))])
          /\ UNCHANGED mgrVars
          /\ UNCHANGED poolVars
  /\ Called

\* A second passes on the clock.
Tick ==
  /\ now < MaxTime
  /\ now' = now + 1
  /\ UNCHANGED mgrVars
  /\ UNCHANGED <<pc, lv, headerCache, lastAccessed, nextMgr, closeCount, stopCleanup, reaper, calls, managers, globalMode, global>>

\* ----------------------------------------------------------------- Manager

\* NewManager, lines 277-289, for every Manager; no Client exists yet.
MgrInit ==
  /\ connections = [m \in Managers |-> [a \in Aliases |-> NoEntry]]
  /\ primary = [m \in Managers |-> ""]
  /\ aliasLocks = [m \in Managers |-> [a \in Aliases |-> 0]]
  /\ mu = [m \in Managers |-> NoThread]
  /\ clients = [c \in ClientIds |-> NewClientRec]
  /\ nextClient = 1
  /\ cmu = [c \in ClientIds |-> NoThread]
  /\ locked = {}
  /\ pc = [t \in Threads |-> "idle"]
  /\ lv = [t \in Threads |-> Idle]

Init ==
  /\ MgrInit
  /\ headerCache = [k \in Keys |-> 0]
  /\ lastAccessed = [m \in Managers |-> 0]
  /\ nextMgr = NumManagers + 1
  /\ closeCount = [m \in Managers |-> 0]
  /\ stopCleanup = FALSE
  /\ reaper = PoolIdle
  /\ managers = [id \in SessionIds |-> 0]
  /\ globalMode = FALSE
  /\ global = 0
  /\ now = 0
  /\ calls = 0

Next ==
  \/ \E t \in Threads : Finish(t)
  \/ \E t \in Threads, m \in Managers, h \in Hosts, a \in {""} \cup ExplicitAliases, v \in Vias :
       (a = "" => h \in AutoHosts) /\ ConnectCall(t, m, h, a, v)
  \/ \E t \in Threads : ConnectReserve(t)
  \/ \E t \in Threads, keyOk \in BOOLEAN : ConnectPrep(t, keyOk)
  \/ \E t \in Threads, ok \in BOOLEAN, pwdOk \in BOOLEAN : ConnectDial(t, ok, pwdOk)
  \/ \E t \in Threads : ConnectStore(t)
  \/ \E t \in Threads : ConnectCleanup(t)
  \/ \E t \in Threads, m \in Managers, a \in {""} \cup (Targets \ {"primary"}) : DisconnectCall(t, m, a)
  \/ \E t \in Threads : DisconnectClose(t)
  \/ \E t \in Threads : DisconnectDone(t)
  \/ \E t \in Threads, m \in Managers : MgrCloseCall(t, m)
  \/ \E t \in Threads : MgrCloseClient(t)
  \/ \E t \in Threads : MgrCloseDone(t)
  \/ \E t \in Threads, m \in Managers, tg \in Targets, cmd \in Cmds : RunCall(t, m, tg, cmd)
  \/ \E t \in Threads : GetLock(t)
  \/ \E t \in Threads : AliasLock(t)
  \/ \E t \in Threads : RunLookup(t)
  \/ \E t \in Threads : ClientRunBegin(t)
  \/ \E t \in Threads, err \in {NoErr} \cup RunErrs, exit \in {0, 1} :
       (err # NoErr => exit = 0) /\ ClientRunEnd(t, err, exit)
  \/ \E t \in Threads : RunReconnect(t)
  \/ \E t \in Threads, ok \in BOOLEAN, pwdOk \in BOOLEAN : RunRedial(t, ok, pwdOk)
  \/ \E t \in Threads, m \in Managers, k \in FileOps, tg \in Targets, p \in Paths :
       FileCall(t, m, k, tg, p)
  \/ \E t \in Threads : FilePath(t)
  \/ \E t \in Threads : FileLookup(t)
  \/ \E t \in Threads, ok \in BOOLEAN : FileSftp(t, ok)
  \/ \E t \in Threads, ok \in BOOLEAN : FileIO(t, ok)
  \/ \E t \in Threads, k \in Keys : GetByHeaderCall(t, k)
  \/ \E t \in Threads : GetByHeaderTouch(t)
  \/ \E t \in Threads : GetByHeaderSlow(t)
  \/ ReapCollect
  \/ ReapRemove
  \/ ReapClose
  \/ ReaperStop
  \/ \E t \in Threads : PoolCloseCall(t)
  \/ \E t \in Threads : PoolCloseStop(t)
  \/ \E t \in Threads : PoolCloseGlobal(t)
  \/ \E t \in Threads : PoolCloseSessions(t)
  \/ \E t \in Threads : PoolCloseHeader(t)
  \/ Tick

Spec == Init /\ [][Next]_vars

\* Connect, Disconnect and Close alone: the alias map and primary.
NextAlias ==
  \/ \E t \in Threads : Finish(t)
  \/ \E t \in Threads, m \in OneManager, h \in Hosts, a \in {""} \cup ExplicitAliases, v \in Vias :
       (a = "" => h \in AutoHosts) /\ ConnectCall(t, m, h, a, v)
  \/ \E t \in Threads : ConnectReserve(t)
  \/ \E t \in Threads, keyOk \in BOOLEAN : ConnectPrep(t, keyOk)
  \/ \E t \in Threads, ok \in BOOLEAN : ConnectDial(t, ok, TRUE)
  \/ \E t \in Threads : ConnectStore(t)
  \/ \E t \in Threads : ConnectCleanup(t)
  \/ \E t \in Threads, m \in OneManager, a \in {""} \cup (Targets \ {"primary"}) : DisconnectCall(t, m, a)
  \/ \E t \in Threads : DisconnectClose(t)
  \/ \E t \in Threads : DisconnectDone(t)
  \/ \E t \in Threads, m \in OneManager : MgrCloseCall(t, m)
  \/ \E t \in Threads : MgrCloseClient(t)
  \/ \E t \in Threads : MgrCloseDone(t)

SpecAlias == Init /\ [][NextAlias]_vars

\* Callers that connect to the same user@host without naming an alias, every
\* handshake succeeding.
NextAuto ==
  \/ \E t \in Threads : Finish(t)
  \/ \E t \in Threads, m \in OneManager : ConnectCall(t, m, "h", "", "")
  \/ \E t \in Threads : ConnectReserve(t)
  \/ \E t \in Threads : ConnectPrep(t, TRUE)
  \/ \E t \in Threads : ConnectDial(t, TRUE, TRUE)
  \/ \E t \in Threads : ConnectStore(t)

SpecAuto == Init /\ [][NextAuto]_vars

\* Two tenants with connections established: Manager 1 holds "a" (to host g)
\* and "u@h", Manager 2 holds its own "a". Every Client starts in its home
\* directory; "a" of Manager 1, the first connected, is primary.
Connected(m, alias, host) == [alias |-> alias, m |-> m, host |-> host, user |-> "u", via |-> "",
                              conn |-> 1, dials |-> 1, cwd |-> HomeDir, sftp |-> 0, through |-> 0]

InitRun ==
  /\ connections = [m \in Managers |-> [a \in Aliases |->
                      IF m = 1 /\ a = "a" THEN 1
                      ELSE IF m = 1 /\ a = "u@h" THEN 2
                      ELSE IF m = 2 /\ a = "a" THEN 3
                      ELSE NoEntry]]
  /\ primary = [m \in Managers |-> IF m \in {1, 2} THEN "a" ELSE ""]
  /\ aliasLocks = [m \in Managers |-> [a \in Aliases |-> 0]]
  /\ mu = [m \in Managers |-> NoThread]
  /\ clients = [c \in ClientIds |->
                  IF c = 1 THEN Connected(1, "a", "g")
                  ELSE IF c = 2 THEN Connected(1, "u@h", "h")
                  ELSE IF c = 3 THEN Connected(2, "a", "h")
                  ELSE NewClientRec]
  /\ nextClient = 4
  /\ cmu = [c \in ClientIds |-> NoThread]
  /\ locked = {}
  /\ pc = [t \in Threads |-> "idle"]
  /\ lv = [t \in Threads |-> Idle]
  /\ headerCache = [k \in Keys |-> 0]
  /\ lastAccessed = [m \in Managers |-> 0]
  /\ nextMgr = NumManagers + 1
  /\ closeCount = [m \in Managers |-> 0]
  /\ stopCleanup = FALSE
  /\ reaper = PoolIdle
  /\ managers = [id \in SessionIds |-> 0]
  /\ globalMode = FALSE
  /\ global = 0
  /\ now = 0
  /\ calls = 0

\* Commands and file operations on established connections.
NextRun ==
  \/ \E t \in Threads : Finish(t)
  \/ \E t \in Threads, m \in Managers, tg \in Targets, cmd \in Cmds : RunCall(t, m, tg, cmd)
  \/ \E t \in Threads : GetLock(t)
  \/ \E t \in Threads : AliasLock(t)
  \/ \E t \in Threads : RunLookup(t)
  \/ \E t \in Threads : ClientRunBegin(t)
  \/ \E t \in Threads, err \in {NoErr} \cup RunErrs, exit \in {0, 1} :
       (err # NoErr => exit = 0) /\ ClientRunEnd(t, err, exit)
  \/ \E t \in Threads : RunReconnect(t)
  \/ \E t \in Threads, ok \in BOOLEAN, pwdOk \in BOOLEAN : RunRedial(t, ok, pwdOk)

SpecRun == InitRun /\ [][NextRun]_vars

\* Commands and file operations of one tenant.
NextOps ==
  \/ \E t \in Threads : Finish(t)
  \/ \E t \in Threads, m \in OneManager, tg \in Targets, cmd \in Cmds : RunCall(t, m, tg, cmd)
  \/ \E t \in Threads : GetLock(t)
  \/ \E t \in Threads : AliasLock(t)
  \/ \E t \in Threads : RunLookup(t)
  \/ \E t \in Threads : ClientRunBegin(t)
  \/ \E t \in Threads, err \in {NoErr} \cup RunErrs, exit \in {0, 1} :
       (err # NoErr => exit = 0) /\ ClientRunEnd(t, err, exit)
  \/ \E t \in Threads : RunReconnect(t)
  \/ \E t \in Threads, ok \in BOOLEAN, pwdOk \in BOOLEAN : RunRedial(t, ok, pwdOk)
  \/ \E t \in Threads, m \in OneManager, k \in FileOps, tg \in Targets, p \in Paths :
       FileCall(t, m, k, tg, p)
  \/ \E t \in Threads : FilePath(t)
  \/ \E t \in Threads : FileLookup(t)
  \/ \E t \in Threads, ok \in BOOLEAN : FileSftp(t, ok)
  \/ \E t \in Threads, ok \in BOOLEAN : FileIO(t, ok)

SpecOps == InitRun /\ [][NextOps]_vars

\* Targets resolved against Managers in different conditions. Manager 1 holds
\* the live primary "a" and the placeholder "u@h" that a failed
\* Connect{Host: h, Username: u, Via: "u@h"} left; Manager 2 is new: no alias,
\* no primary.
InitResolve ==
  /\ connections = [m \in Managers |-> [a \in Aliases |->
                      IF m = 1 /\ a = "a" THEN 1
                      ELSE IF m = 1 /\ a = "u@h" THEN NilClient
                      ELSE NoEntry]]
  /\ primary = [m \in Managers |-> IF m = 1 THEN "a" ELSE ""]
  /\ aliasLocks = [m \in Managers |-> [a \in Aliases |-> 0]]
  /\ mu = [m \in Managers |-> NoThread]
  /\ clients = [c \in ClientIds |-> IF c = 1 THEN Connected(1, "a", "g") ELSE NewClientRec]
  /\ nextClient = 2
  /\ cmu = [c \in ClientIds |-> NoThread]
  /\ locked = {}
  /\ pc = [t \in Threads |-> "idle"]
  /\ lv = [t \in Threads |-> Idle]
  /\ headerCache = [k \in Keys |-> 0]
  /\ lastAccessed = [m \in Managers |-> 0]
  /\ nextMgr = NumManagers + 1
  /\ closeCount = [m \in Managers |-> 0]
  /\ stopCleanup = FALSE
  /\ reaper = PoolIdle
  /\ managers = [id \in SessionIds |-> 0]
  /\ globalMode = FALSE
  /\ global = 0
  /\ now = 0
  /\ calls = 0

SpecResolve == InitResolve /\ [][NextRun]_vars

\* sync requests between the two aliases of Manager 1, in both directions.
SyncNodes == {"a", "u@h"}

\* The caller takes the result once the handler has returned.
SyncFinish(t) == lv[t].dest = "" /\ Finish(t)

SyncStep(t) ==
  \/ SyncFinish(t)
  \/ \E m \in OneManager, src \in SyncNodes, dst \in SyncNodes, p \in Paths : SyncCall(t, m, src, dst, p)
  \/ SyncWrite(t)
  \/ FilePath(t)
  \/ GetLock(t)
  \/ AliasLock(t)
  \/ FileLookup(t)
  \/ \E ok \in BOOLEAN : FileSftp(t, ok)
  \/ \E ok \in BOOLEAN : FileIO(t, ok)

NextSync == \E t \in Threads : SyncStep(t)

SpecSync == InitRun /\ [][NextSync]_vars

\* Every handler goroutine keeps running, and sync.Mutex hands a lock that
\* is released again and again to a waiter in the end (starvation mode).
SpecSyncFair ==
  /\ InitRun /\ [][NextSync]_vars
  /\ \A t \in Threads : WF_vars(SyncStep(t)) /\ SF_vars(AliasLock(t))

\* The header-keyed Pool after NewPool(false): no entry, no Manager created
\* yet, the reaper waiting for its ticker.
InitPool ==
  /\ MgrInit
  /\ headerCache = [k \in Keys |-> 0]
  /\ lastAccessed = [m \in Managers |-> 0]
  /\ nextMgr = 1
  /\ closeCount = [m \in Managers |-> 0]
  /\ stopCleanup = FALSE
  /\ reaper = PoolIdle
  /\ managers = [id \in SessionIds |-> 0]
  /\ globalMode = FALSE
  /\ global = 0
  /\ now = 0
  /\ calls = 0

Reaper == ReapCollect \/ ReapRemove \/ ReapClose \/ ReaperStop

NextPool ==
  \/ \E t \in Threads : Finish(t)
  \/ \E t \in Threads, k \in Keys : GetByHeaderCall(t, k)
  \/ \E t \in Threads : GetByHeaderTouch(t)
  \/ \E t \in Threads : GetByHeaderSlow(t)
  \/ ReapCollect
  \/ ReapRemove
  \/ ReapClose
  \/ ReaperStop
  \/ \E t \in Threads : PoolCloseCall(t)
  \/ \E t \in Threads : PoolCloseStop(t)
  \/ \E t \in Threads : PoolCloseGlobal(t)
  \/ \E t \in Threads : PoolCloseSessions(t)
  \/ \E t \in Threads : PoolCloseHeader(t)
  \/ Tick

SpecPool == InitPool /\ [][NextPool]_vars

\* The reaper goroutine keeps running (its ticker fires every cleanupInterval)
\* and a Pool.Close that has started runs to its end.
SpecPoolFair ==
  /\ InitPool /\ [][NextPool]_vars
  /\ WF_vars(Reaper)
  /\ \A t \in Threads : WF_vars(PoolCloseStop(t) \/ PoolCloseGlobal(t) \/ PoolCloseSessions(t)
                                  \/ PoolCloseHeader(t))
\* The Pool in either mode, as NewPool leaves it, with the session hooks, the
\* handlers' getManager, the cleanup goroutine and the shutdown. No time
\* passes, so no entry expires.
InitSession ==
  /\ MgrInit
  /\ \E mode \in BOOLEAN : NewPool(mode)
  /\ lastAccessed = [m \in Managers |-> 0]
  /\ closeCount = [m \in Managers |-> 0]
  /\ now = 0
  /\ calls = 0

NextSession ==
  \/ \E t \in Threads : Finish(t)
  \/ \E t \in Threads, k \in Keys \cup {""}, id \in SessionIds : RegisterSession(t, k, id)
  \/ \E t \in Threads, k \in Keys \cup {""}, id \in SessionIds : UnregisterSession(t, k, id)
  \/ \E t \in Threads, k \in Keys \cup {""}, id \in SessionIds : getManager(t, k, id)
  \/ \E t \in Threads : GetByHeaderTouch(t)
  \/ \E t \in Threads : GetByHeaderSlow(t)
  \/ ReapCollect
  \/ ReapRemove
  \/ ReaperStop
  \/ \E t \in Threads : PoolCloseCall(t)
  \/ \E t \in Threads : PoolCloseStop(t)
  \/ \E t \in Threads : PoolCloseGlobal(t)
  \/ \E t \in Threads : PoolCloseSessions(t)
  \/ \E t \in Threads : PoolCloseHeader(t)

SpecSession == InitSession /\ [][NextSession]_vars
\* Two tenants of one Pool: the tenant of key "foo" has its Manager, with the
\* alias "a" connected; the tenant of key "bar" has not called yet. Each works
\* on the Managers the Pool has handed out, under the same alias name.
InitTenants ==
  /\ connections = [m \in Managers |-> [a \in Aliases |->
                      IF m = 1 /\ a = "a" THEN 1 ELSE NoEntry]]
  /\ primary = [m \in Managers |-> IF m = 1 THEN "a" ELSE ""]
  /\ aliasLocks = [m \in Managers |-> [a \in Aliases |-> 0]]
  /\ mu = [m \in Managers |-> NoThread]
  /\ clients = [c \in ClientIds |-> IF c = 1 THEN Connected(1, "a", "g") ELSE NewClientRec]
  /\ nextClient = 2
  /\ cmu = [c \in ClientIds |-> NoThread]
  /\ locked = {}
  /\ pc = [t \in Threads |-> "idle"]
  /\ lv = [t \in Threads |-> Idle]
  /\ headerCache = [k \in Keys |-> IF k = "foo" THEN 1 ELSE 0]
  /\ lastAccessed = [m \in Managers |-> 0]
  /\ nextMgr = 2
  /\ closeCount = [m \in Managers |-> 0]
  /\ stopCleanup = FALSE
  /\ reaper = PoolIdle
  /\ managers = [id \in SessionIds |-> 0]
  /\ globalMode = FALSE
  /\ global = 0
  /\ now = 0
  /\ calls = 0

NextTenants ==
  \/ \E t \in Threads : Finish(t)
  \/ \E t \in Threads, k \in Keys \cup {""} : GetByHeaderCall(t, k)
  \/ \E t \in Threads : GetByHeaderTouch(t)
  \/ \E t \in Threads : GetByHeaderSlow(t)
  \/ \E t \in Threads, m \in 1..(nextMgr - 1) : ConnectCall(t, m, "h", "a", "")
  \/ \E t \in Threads : ConnectReserve(t)
  \/ \E t \in Threads : ConnectPrep(t, TRUE)
  \/ \E t \in Threads, ok \in BOOLEAN : ConnectDial(t, ok, TRUE)
  \/ \E t \in Threads : ConnectStore(t)
  \/ \E t \in Threads : ConnectCleanup(t)
  \/ \E t \in Threads, m \in 1..(nextMgr - 1), cmd \in Cmds : RunCall(t, m, "a", cmd)
  \/ \E t \in Threads : GetLock(t)
  \/ \E t \in Threads : AliasLock(t)
  \/ \E t \in Threads : RunLookup(t)
  \/ \E t \in Threads : ClientRunBegin(t)
  \/ \E t \in Threads, err \in {NoErr, ErrSession(<<"EOF">>)} : ClientRunEnd(t, err, 0)
  \/ \E t \in Threads : RunReconnect(t)
  \/ \E t \in Threads, ok \in BOOLEAN : RunRedial(t, ok, TRUE)
  \/ \E t \in Threads, m \in 1..(nextMgr - 1) : DisconnectCall(t, m, "a")
  \/ \E t \in Threads : DisconnectClose(t)
  \/ \E t \in Threads : DisconnectDone(t)
  \/ \E t \in Threads, m \in 1..(nextMgr - 1) : MgrCloseCall(t, m)
  \/ \E t \in Threads : MgrCloseClient(t)
  \/ \E t \in Threads : MgrCloseDone(t)

SpecTenants == InitTenants /\ [][NextTenants]_vars
\* A bastion and a host behind it: "u@h" was connected directly and "a" (host
\* g) was connected with via "u@h", through the transport of "u@h".
InitJump ==
  /\ connections = [m \in Managers |-> [a \in Aliases |->
                      IF m = 1 /\ a = "u@h" THEN 1
                      ELSE IF m = 1 /\ a = "a" THEN 2
                      ELSE NoEntry]]
  /\ primary = [m \in Managers |-> IF m = 1 THEN "u@h" ELSE ""]
  /\ aliasLocks = [m \in Managers |-> [a \in Aliases |-> 0]]
  /\ mu = [m \in Managers |-> NoThread]
  /\ clients = [c \in ClientIds |->
                  IF c = 1 THEN Connected(1, "u@h", "h")
                  ELSE IF c = 2 THEN [Connected(1, "a", "g") EXCEPT !.via = "u@h", !.through = 1]
                  ELSE NewClientRec]
  /\ nextClient = 3
  /\ cmu = [c \in ClientIds |-> NoThread]
  /\ locked = {}
  /\ pc = [t \in Threads |-> "idle"]
  /\ lv = [t \in Threads |-> Idle]
  /\ headerCache = [k \in Keys |-> 0]
  /\ lastAccessed = [m \in Managers |-> 0]
  /\ nextMgr = NumManagers + 1
  /\ closeCount = [m \in Managers |-> 0]
  /\ stopCleanup = FALSE
  /\ reaper = PoolIdle
  /\ managers = [id \in SessionIds |-> 0]
  /\ globalMode = FALSE
  /\ global = 0
  /\ now = 0
  /\ calls = 0

\* Commands on the host behind the bastion, Connects through the bastion and
\* of the bastion itself, and Disconnects of either.
NextJump ==
  \/ \E t \in Threads : Finish(t)
  \/ \E t \in Threads, m \in OneManager, h \in Hosts, a \in ExplicitAliases \cup {"u@h"}, v \in Vias :
       (a = "u@h" <=> v = "") /\ (a = "u@h" => h = "h") /\ ConnectCall(t, m, h, a, v)
  \/ \E t \in Threads : ConnectReserve(t)
  \/ \E t \in Threads : ConnectPrep(t, TRUE)
  \/ \E t \in Threads, ok \in BOOLEAN : ConnectDial(t, ok, TRUE)
  \/ \E t \in Threads : ConnectStore(t)
  \/ \E t \in Threads : ConnectCleanup(t)
  \/ \E t \in Threads, m \in OneManager, cmd \in Cmds : RunCall(t, m, "a", cmd)
  \/ \E t \in Threads : GetLock(t)
  \/ \E t \in Threads : AliasLock(t)
  \/ \E t \in Threads : RunLookup(t)
  \/ \E t \in Threads : ClientRunBegin(t)
  \/ \E t \in Threads, err \in {NoErr, ErrSession(<<"EOF">>)} : ClientRunEnd(t, err, 0)
  \/ \E t \in Threads : RunReconnect(t)
  \/ \E t \in Threads, ok \in BOOLEAN : RunRedial(t, ok, TRUE)
  \/ \E t \in Threads, m \in OneManager, a \in {"a", "u@h"} : DisconnectCall(t, m, a)
  \/ \E t \in Threads : DisconnectClose(t)
  \/ \E t \in Threads : DisconnectDone(t)

SpecJump == InitJump /\ [][NextJump]_vars
\* Requests on a Manager that is closed while they run: the callers got the
\* Manager before it was closed (the Pool hands out no closed Manager), and
\* Manager.Close is called once, as the reaper, DestroySession and Pool.Close
\* do.
Open(m) == closeCount[m] = 0

NextClosing ==
  \/ \E t \in Threads : Finish(t)
  \/ \E t \in Threads, m \in OneManager, cmd \in Cmds : Open(m) /\ RunCall(t, m, "a", cmd)
  \/ \E t \in Threads : GetLock(t)
  \/ \E t \in Threads : AliasLock(t)
  \/ \E t \in Threads : RunLookup(t)
  \/ \E t \in Threads : ClientRunBegin(t)
  \/ \E t \in Threads, err \in {NoErr, ErrSession(<<"EOF">>)} : ClientRunEnd(t, err, 0)
  \/ \E t \in Threads : RunReconnect(t)
  \/ \E t \in Threads, ok \in BOOLEAN : RunRedial(t, ok, TRUE)
  \/ \E t \in Threads, m \in OneManager, k \in FileOps, p \in Paths :
       Open(m) /\ FileCall(t, m, k, "a", p)
  \/ \E t \in Threads : FilePath(t)
  \/ \E t \in Threads : FileLookup(t)
  \/ \E t \in Threads, ok \in BOOLEAN : FileSftp(t, ok)
  \/ \E t \in Threads, ok \in BOOLEAN : FileIO(t, ok)
  \/ \E t \in Threads, m \in OneManager, a \in ExplicitAliases :
       Open(m) /\ ConnectCall(t, m, "g", a, "")
  \/ \E t \in Threads : ConnectReserve(t)
  \/ \E t \in Threads : ConnectPrep(t, TRUE)
  \/ \E t \in Threads, ok \in BOOLEAN : ConnectDial(t, ok, TRUE)
  \/ \E t \in Threads : ConnectStore(t)
  \/ \E t \in Threads : ConnectCleanup(t)
  \/ \E t \in Threads, m \in OneManager : Open(m) /\ mu[m] = NoThread /\ MgrCloseCall(t, m)
  \/ \E t \in Threads : MgrCloseClient(t)
  \/ \E t \in Threads : MgrCloseDone(t)

SpecClosing == InitTenants /\ [][NextClosing]_vars
\* Execute on every RunResult of a bounded size: stdout and stderr of up to
\* MaxText bytes each and an exit code; each thread formats one result.
MaxText == 11
ExitCodes == {0, 1, 2}
Text(b) == {[i \in 1..n |-> b] : n \in 0..MaxText}
Results == [Stdout : Text("o"), Stderr : Text("e"), ExitCode : ExitCodes]

InitExecute ==
  /\ connections = [m \in Managers |-> [a \in Aliases |-> NoEntry]]
  /\ primary = [m \in Managers |-> ""]
  /\ aliasLocks = [m \in Managers |-> [a \in Aliases |-> 0]]
  /\ mu = [m \in Managers |-> NoThread]
  /\ clients = [c \in ClientIds |-> NewClientRec]
  /\ nextClient = 1
  /\ cmu = [c \in ClientIds |-> NoThread]
  /\ locked = {}
  /\ \E r \in Results :
       /\ pc = [t \in Threads |-> IF t = 1 THEN "format" ELSE "idle"]
       /\ lv = [t \in Threads |-> IF t = 1 THEN [Idle EXCEPT !.op = "Execute", !.result = r] ELSE Idle]
  /\ headerCache = [k \in Keys |-> 0]
  /\ lastAccessed = [m \in Managers |-> 0]
  /\ nextMgr = NumManagers + 1
  /\ closeCount = [m \in Managers |-> 0]
  /\ stopCleanup = FALSE
  /\ reaper = PoolIdle
  /\ managers = [id \in SessionIds |-> 0]
  /\ globalMode = FALSE
  /\ global = 0
  /\ now = 0
  /\ calls = 0

NextExecute == \E t \in Threads : ExecuteFormat(t)

SpecExecute == InitExecute /\ [][NextExecute]_vars
\* resolvePath on every path of up to MaxPath elements, absolute or relative,
\* against the directories a Connection's CWD can be: "/" for an alias without
\* a Client, a directory that pwd reported, or "~" after a connect whose
\* initial pwd failed (client.go lines 113-115).
MaxPath == 3
Elems == {".", "..", "data", "etc"}
PathInputs == [abs : BOOLEAN, elems : UNION {[1..n -> Elems] : n \in 0..MaxPath}]
Cwds == {[abs |-> TRUE, elems |-> <<>>], [abs |-> TRUE, elems |-> <<"data">>],
         [abs |-> TRUE, elems |-> <<"data", "sub">>], [abs |-> FALSE, elems |-> <<Tilde>>]}

InitPath ==
  /\ connections = [m \in Managers |-> [a \in Aliases |-> NoEntry]]
  /\ primary = [m \in Managers |-> ""]
  /\ aliasLocks = [m \in Managers |-> [a \in Aliases |-> 0]]
  /\ mu = [m \in Managers |-> NoThread]
  /\ clients = [c \in ClientIds |-> NewClientRec]
  /\ nextClient = 1
  /\ cmu = [c \in ClientIds |-> NoThread]
  /\ locked = {}
  /\ \E cwd \in Cwds, path \in PathInputs :
       /\ pc = [t \in Threads |-> IF t = 1 THEN "resolve" ELSE "idle"]
       /\ lv = [t \in Threads |-> IF t = 1
                                  THEN [Idle EXCEPT !.op = "resolvePath", !.cwd = cwd, !.path = path]
                                  ELSE Idle]
  /\ headerCache = [k \in Keys |-> 0]
  /\ lastAccessed = [m \in Managers |-> 0]
  /\ nextMgr = NumManagers + 1
  /\ closeCount = [m \in Managers |-> 0]
  /\ stopCleanup = FALSE
  /\ reaper = PoolIdle
  /\ managers = [id \in SessionIds |-> 0]
  /\ globalMode = FALSE
  /\ global = 0
  /\ now = 0
  /\ calls = 0

NextPath == \E t \in Threads : ResolvePathStep(t)

SpecPath == InitPath /\ [][NextPath]_vars
\* Concurrent Connect calls with every combination of a key path and a
\* password in the options.
KeyPaths == {"", "id_ed25519"}
Passwords == {"", "pw"}
Options == [Password : Passwords, PrivateKeyPath : KeyPaths]

InitAuth ==
  /\ connections = [m \in Managers |-> [a \in Aliases |-> NoEntry]]
  /\ primary = [m \in Managers |-> ""]
  /\ aliasLocks = [m \in Managers |-> [a \in Aliases |-> 0]]
  /\ mu = [m \in Managers |-> NoThread]
  /\ clients = [c \in ClientIds |-> NewClientRec]
  /\ nextClient = 1
  /\ cmu = [c \in ClientIds |-> NoThread]
  /\ locked = {}
  /\ pc = [t \in Threads |-> "creds"]
  /\ \E o \in [Threads -> Options] :
       lv = [t \in Threads |-> [Idle EXCEPT !.op = "Connect", !.m = 1, !.opts = o[t]]]
  /\ headerCache = [k \in Keys |-> 0]
  /\ lastAccessed = [m \in Managers |-> 0]
  /\ nextMgr = NumManagers + 1
  /\ closeCount = [m \in Managers |-> 0]
  /\ stopCleanup = FALSE
  /\ reaper = PoolIdle
  /\ managers = [id \in SessionIds |-> 0]
  /\ globalMode = FALSE
  /\ global = 0
  /\ now = 0
  /\ calls = 0

NextAuth == \E t \in Threads : ConnectCreds(t) \/ ClientAuth(t)

SpecAuth == InitAuth /\ [][NextAuth]_vars
\* Tool calls with and without their required argument, on resolvable and
\* unresolvable targets, against the Manager that holds the connection "a".
RunArgs == [tool : {"run"}, required : {<<>>} \cup {<<c>> : c \in Cmds},
            target : {<<>>, <<"a">>, <<"u@h">>}]
ReadArgs == [tool : {"read"}, required : {<<>>, <<"f">>}, target : {<<>>, <<"a">>, <<"u@h">>}]

NextHandlers ==
  \/ \E t \in Threads : Finish(t)
  \/ \E t \in Threads, args \in RunArgs : RunHandler(t, 1, args)
  \/ \E t \in Threads, args \in ReadArgs : ReadHandler(t, 1, args)
  \/ \E t \in Threads : GetLock(t)
  \/ \E t \in Threads : AliasLock(t)
  \/ \E t \in Threads : RunLookup(t)
  \/ \E t \in Threads : ClientRunBegin(t)
  \/ \E t \in Threads, err \in {NoErr, ErrSession(<<"EOF">>)} : ClientRunEnd(t, err, 0)
  \/ \E t \in Threads : RunReconnect(t)
  \/ \E t \in Threads, ok \in BOOLEAN : RunRedial(t, ok, TRUE)
  \/ \E t \in Threads : FilePath(t)
  \/ \E t \in Threads : FileLookup(t)
  \/ \E t \in Threads, ok \in BOOLEAN : FileSftp(t, ok)
  \/ \E t \in Threads, ok \in BOOLEAN : FileIO(t, ok)

SpecHandlers == InitTenants /\ [][NextHandlers]_vars
\* shellQuote on every string of up to MaxStr characters, quotes, blanks,
\* operators and expansion signs among them.
MaxStr == 3
Chars == {"a", Quote, DQuote, " ", ";", "$", Backslash}
Strings(n) == UNION {[1..k -> Chars] : k \in 0..n}

InitQuote ==
  /\ connections = [m \in Managers |-> [a \in Aliases |-> NoEntry]]
  /\ primary = [m \in Managers |-> ""]
  /\ aliasLocks = [m \in Managers |-> [a \in Aliases |-> 0]]
  /\ mu = [m \in Managers |-> NoThread]
  /\ clients = [c \in ClientIds |-> NewClientRec]
  /\ nextClient = 1
  /\ cmu = [c \in ClientIds |-> NoThread]
  /\ locked = {}
  /\ \E s \in Strings(MaxStr) :
       /\ pc = [t \in Threads |-> IF t = 1 THEN "quote" ELSE "idle"]
       /\ lv = [t \in Threads |-> IF t = 1 THEN [Idle EXCEPT !.op = "shellQuote", !.arg = s]
                                  ELSE Idle]
  /\ headerCache = [k \in Keys |-> 0]
  /\ lastAccessed = [m \in Managers |-> 0]
  /\ nextMgr = NumManagers + 1
  /\ closeCount = [m \in Managers |-> 0]
  /\ stopCleanup = FALSE
  /\ reaper = PoolIdle
  /\ managers = [id \in SessionIds |-> 0]
  /\ globalMode = FALSE
  /\ global = 0
  /\ now = 0
  /\ calls = 0

NextQuote == \E t \in Threads : ShellQuoteStep(t)

SpecQuote == InitQuote /\ [][NextQuote]_vars
\* The edit tool with every operation and arguments of up to MaxArg
\* characters, the single quote, an operator and the sed delimiter among them.
MaxArg == 2
EditChars == {"a", Quote, ";", "/"}
EditTexts == UNION {[1..k -> EditChars] : k \in 0..MaxArg}
Operations == {"replace", "regex", "insert", "append", "prepend", "delete", "replace_line", "other"}
EditPaths == {<<"f">>, <<"f", " ", Quote, ";">>}
Edits == [operation : Operations, path : EditPaths, text : EditTexts, with : EditTexts,
          line : {0, 1}, end : {0}]

InitEdit ==
  /\ connections = [m \in Managers |-> [a \in Aliases |-> NoEntry]]
  /\ primary = [m \in Managers |-> ""]
  /\ aliasLocks = [m \in Managers |-> [a \in Aliases |-> 0]]
  /\ mu = [m \in Managers |-> NoThread]
  /\ clients = [c \in ClientIds |-> NewClientRec]
  /\ nextClient = 1
  /\ cmu = [c \in ClientIds |-> NoThread]
  /\ locked = {}
  /\ \E e \in Edits :
       /\ pc = [t \in Threads |-> IF t = 1 THEN "edit" ELSE "idle"]
       /\ lv = [t \in Threads |-> IF t = 1 THEN [Idle EXCEPT !.op = "edit", !.edit = e]
                                  ELSE Idle]
  /\ headerCache = [k \in Keys |-> 0]
  /\ lastAccessed = [m \in Managers |-> 0]
  /\ nextMgr = NumManagers + 1
  /\ closeCount = [m \in Managers |-> 0]
  /\ stopCleanup = FALSE
  /\ reaper = PoolIdle
  /\ managers = [id \in SessionIds |-> 0]
  /\ globalMode = FALSE
  /\ global = 0
  /\ now = 0
  /\ calls = 0

NextEdit == \E t \in Threads : EditCompose(t)

SpecEdit == InitEdit /\ [][NextEdit]_vars
\* Every kind of call at once, for the locks: Manager 1 is the Manager of
\* session "s1" and holds the connection "a"; header key "foo" gets its
\* Manager on its first request. The calls: Connect, Disconnect, Run,
\* ReadFile and Close on Manager 1, the session hooks for "s1", GetByHeader
\* for "foo", the reaper and Pool.Close. A request that would need one more
\* Manager object than the model holds is not made.
InitLocks ==
  /\ connections = [m \in Managers |-> [a \in Aliases |->
                      IF m = 1 /\ a = "a" THEN 1 ELSE NoEntry]]
  /\ primary = [m \in Managers |-> IF m = 1 THEN "a" ELSE ""]
  /\ aliasLocks = [m \in Managers |-> [a \in Aliases |-> 0]]
  /\ mu = [m \in Managers |-> NoThread]
  /\ clients = [c \in ClientIds |-> IF c = 1 THEN Connected(1, "a", "g") ELSE NewClientRec]
  /\ nextClient = 2
  /\ cmu = [c \in ClientIds |-> NoThread]
  /\ locked = {}
  /\ pc = [t \in Threads |-> "idle"]
  /\ lv = [t \in Threads |-> Idle]
  /\ headerCache = [k \in Keys |-> 0]
  /\ lastAccessed = [m \in Managers |-> 0]
  /\ nextMgr = 2
  /\ closeCount = [m \in Managers |-> 0]
  /\ stopCleanup = FALSE
  /\ reaper = PoolIdle
  /\ managers = [id \in SessionIds |-> IF id = "s1" THEN 1 ELSE 0]
  /\ globalMode = FALSE
  /\ global = 0
  /\ now = 0
  /\ calls = 0

\* What a thread inside a call does next.
Continue(t) ==
  \/ GetLock(t)
  \/ AliasLock(t)
  \/ RunLookup(t)
  \/ ClientRunBegin(t)
  \/ \E err \in {NoErr, ErrSession(<<"EOF">>)} : ClientRunEnd(t, err, 0)
  \/ RunReconnect(t)
  \/ \E ok \in BOOLEAN : RunRedial(t, ok, TRUE)
  \/ FilePath(t)
  \/ FileLookup(t)
  \/ \E ok \in BOOLEAN : FileSftp(t, ok)
  \/ \E ok \in BOOLEAN : FileIO(t, ok)
  \/ ConnectReserve(t)
  \/ ConnectPrep(t, TRUE)
  \/ \E ok \in BOOLEAN : ConnectDial(t, ok, TRUE)
  \/ ConnectStore(t)
  \/ ConnectCleanup(t)
  \/ DisconnectClose(t)
  \/ DisconnectDone(t)
  \/ MgrCloseClient(t)
  \/ MgrCloseDone(t)
  \/ GetByHeaderTouch(t)
  \/ GetByHeaderSlow(t)
  \/ PoolCloseStop(t)
  \/ PoolCloseGlobal(t)
  \/ PoolCloseSessions(t)
  \/ PoolCloseHeader(t)

\* The calls the threads make, MaxLockCalls of them in all.
MaxLockCalls == 3
MaxLockTime == 2
NextLocks ==
  \/ \E t \in Threads : Finish(t)
  \/ \E t \in Threads : calls < MaxLockCalls /\ RunCall(t, 1, "a", [cd |-> ""])
  \/ \E t \in Threads : calls < MaxLockCalls /\ FileCall(t, 1, "ReadFile", "a", "f")
  \/ \E t \in Threads : calls < MaxLockCalls /\ ConnectCall(t, 1, "g", "a", "")
  \/ \E t \in Threads : calls < MaxLockCalls /\ DisconnectCall(t, 1, "a")
  \/ \E t \in Threads : calls < MaxLockCalls /\ MgrCloseCall(t, 1)
  \/ \E t \in Threads : calls < MaxLockCalls /\ managers["s1"] # 0 /\ RegisterSession(t, "", "s1")
  \/ \E t \in Threads : calls < MaxLockCalls /\ UnregisterSession(t, "", "s1")
  \/ \E t \in Threads :
       /\ calls < MaxLockCalls
       /\ headerCache["foo"] # 0 \/ (nextMgr <= NumManagers /\ \A u \in Threads : pc[u] # "g_slow")
       /\ GetByHeaderCall(t, "foo")
  \/ \E t \in Threads : calls < MaxLockCalls /\ PoolCloseCall(t)
  \/ \E t \in Threads : Continue(t)
  \/ Reaper
  \/ now < MaxLockTime /\ Tick

\* Every handler goroutine and the reaper keep running, every network
\* operation returns, and sync.Mutex hands a lock that is released again and
\* again to a waiter in the end (starvation mode).
SpecLocks ==
  /\ InitLocks /\ [][NextLocks]_vars
  /\ \A t \in Threads : WF_vars(Continue(t)) /\ SF_vars(AliasLock(t))
  /\ WF_vars(ReapRemove \/ ReapClose)
\* Runs on the alias "a" of one Manager whose callers cancel them or whose
\* deadlines pass; a session that cannot be created leads to the reconnect.
NextCancel ==
  \/ \E t \in Threads : Finish(t)
  \/ \E t \in Threads, m \in OneManager, cmd \in Cmds : RunCall(t, m, "a", cmd)
  \/ \E t \in Threads : GetLock(t)
  \/ \E t \in Threads : AliasLock(t)
  \/ \E t \in Threads : RunLookup(t)
  \/ \E t \in Threads : ClientRunBegin(t)
  \/ \E t \in Threads, exit \in {0, 1} : ClientRunSelect(t, exit)
  \/ \E t \in Threads : ClientRunEnd(t, ErrSession(<<"EOF">>), 0)
  \/ \E t \in Threads : RunReconnect(t)
  \/ \E t \in Threads, ok \in BOOLEAN : RunRedial(t, ok, TRUE)
  \/ \E t \in Threads, err \in {ErrCanceled, ErrDeadline} : Cancel(t, err)

SpecCancel == InitRun /\ [][NextCancel]_vars

\* =================================================================== claims
Allocated == 1..(nextClient - 1)
Present(m) == {a \in Aliases : connections[m][a] # NoEntry}
AutoName(i) == IF i = 1 THEN Base("u", "h") ELSE Candidate(Base("u", "h"), i)

\* A thread inside Connect that holds an alias (reserved, or already stored).
Connecting(t) == /\ lv[t].op = "Connect"
                 /\ pc[t] \in {"c_reserve", "c_prep", "c_dial", "c_store", "done"}
                 /\ lv[t].err = NoErr

\* C1: N concurrent Connect calls without alias for the same user@host (N up
\* to the suffix limit, every handshake succeeding) get pairwise distinct
\* aliases, exactly user@host, user@host-2, ..., user@host-N, and no alias
\* ever has more than one Connection.
C1_AutoAliasesDistinct ==
  calls <= MaxSuffix =>
    \A m \in OneManager :
      /\ Present(m) = {AutoName(i) : i \in 1..calls}
      /\ \A t1, t2 \in Threads :
           (t1 # t2 /\ Connecting(t1) /\ Connecting(t2)) => lv[t1].alias # lv[t2].alias
      /\ \A c1, c2 \in Allocated : c1 # c2 => clients[c1].alias # clients[c2].alias
      /\ \A t \in Threads, c \in Allocated :
           (Connecting(t) /\ clients[c].alias = lv[t].alias) => lv[t].client = c
      /\ \A a \in Present(m) :
           connections[m][a] > NilClient => clients[connections[m][a]].alias = a

\* Two handshakes in flight at once, holding different reservations, and a
\* third alias already assigned.
C1_Witness ==
  /\ calls = MaxSuffix
  /\ \E t1, t2 \in Threads :
       /\ t1 # t2 /\ pc[t1] = "c_dial" /\ pc[t2] = "c_dial"
       /\ lv[t1].alias # lv[t2].alias
  /\ \E c \in Allocated : connections[1][clients[c].alias] = c

\* C9: primary is either empty or names an alias whose map entry is a live
\* Connection, in every state in which the Manager lock is free.
C9_PrimaryNamesLive ==
  \A m \in Managers :
    MuFree(m) => (primary[m] = "" \/ connections[m][primary[m]] > NilClient)

\* C10: a successful Connect sets primary exactly when there is none (the
\* first one that succeeds) and otherwise leaves it; Disconnect of an alias
\* that is not primary leaves it; Disconnect of the primary alias makes
\* another live alias primary when one exists and empties primary otherwise.
C10_PrimarySelection ==
  [][\A t \in Threads :
       LET m == lv[t].m IN
       /\ (pc[t] = "c_store" /\ pc'[t] = "done") =>
            primary'[m] = IF primary[m] = "" THEN lv[t].alias ELSE primary[m]
       /\ (pc[t] = "d_close" /\ pc'[t] = "done" /\ lv[t].op = "Disconnect"
             /\ lv[t].target # "" /\ lv[t].target # primary[m]) =>
            primary'[m] = primary[m]
       /\ (pc[t] = "d_close" /\ pc'[t] = "done" /\ lv[t].op = "Disconnect"
             /\ lv[t].target # "" /\ lv[t].target = primary[m]) =>
            IF LiveAliases(connections'[m]) = {} THEN primary'[m] = ""
            ELSE primary'[m] \in LiveAliases(connections'[m]) \ {lv[t].target}
      ]_vars

\* A second Connect has succeeded, primary still names the first one, and
\* the primary alias is then disconnected while the other is live.
C10_Witness ==
  \E t \in Threads :
    /\ pc[t] = "done" /\ lv[t].op = "Disconnect" /\ lv[t].err = NoErr
    /\ lv[t].target = "a"
    /\ primary[lv[t].m] = "u@h"
    /\ connections[lv[t].m]["u@h"] > NilClient

\* Positions at which a call works on the Client of its alias.
Critical == {"lookup", "run", "exec", "reconnect", "redial", "retry", "reexec", "sftp", "io"}
OnAlias(t, m, a) == pc[t] \in Critical /\ lv[t].m = m /\ lv[t].alias = a

C4_CwdFollowsRun ==
  [][\A c \in ClientIds :
       clients'[c].cwd # clients[c].cwd =>
         \E t \in Threads :
           /\ lv[t].client = c
           /\ pc[t] \in {"exec", "reexec"} /\ pc'[t] = "done"
           /\ lv'[t].err = NoErr /\ lv'[t].res.cwd = clients'[c].cwd
    ]_vars

\* The errors of an execution that report a lost channel.
ChannelLoss == {ErrSession(<<"EOF">>), ErrCommand(<<"EOF">>),
                ErrCommand(<<"read tcp: ", "connection reset", " by peer">>),
                ErrCommand(<<"write tcp: ", "broken pipe">>),
                ErrCommand(<<"dial tcp: ", "connection refused">>)}

\* C5: a first execution that fails with a channel-loss error is followed by
\* one reconnect and one retry whose outcome is returned; every other outcome
\* (another error, cancellation, any exit code) is returned at once without
\* reconnect or retry. A call executes at most twice and reconnects at most once.
C5_ReconnectOnce ==
  [][\A t \in Threads :
       /\ lv'[t].execs <= 2 /\ lv'[t].reconns <= 1
       /\ \A err \in {NoErr} \cup RunErrs, exit \in {0, 1} :
            ((err # NoErr => exit = 0) /\ ClientRunEnd(t, err, exit)) =>
              IF pc[t] = "exec" /\ err \in ChannelLoss
              THEN pc'[t] = "reconnect"
              ELSE /\ pc'[t] = "done" /\ lv'[t].err = err
                   /\ (err = NoErr /\ clients[lv[t].client].cwd \in Dirs) => lv'[t].res.exit = exit
                   /\ lv'[t].execs = (IF pc[t] = "exec" THEN 1 ELSE 2)
                   /\ lv'[t].reconns = (IF pc[t] = "exec" THEN 0 ELSE 1)
       /\ (pc[t] = "reconnect" /\ pc'[t] # "reconnect") =>
            pc'[t] = "redial" /\ lv[t].reconns = 0 /\ lv'[t].reconns = 1
       /\ (pc[t] = "redial" /\ pc'[t] # "redial") =>
            \/ pc'[t] = "retry"
            \/ pc'[t] = "done" /\ lv'[t].err \in {ErrReconnect(ErrDial), ErrReconnect(ErrJump)}
       /\ (pc[t] = "retry" /\ pc'[t] # "retry") =>
            pc'[t] = "reexec" /\ lv[t].execs = 1 /\ lv'[t].execs = 2
       /\ pc'[t] \in {"reconnect", "redial", "retry", "reexec"} => lv'[t].execs >= 1
    ]_vars

\* A call that lost the channel, reconnected and returned the retry's result.
C5_Witness ==
  \E t \in Threads :
    /\ pc[t] = "done" /\ lv[t].op = "Run" /\ lv[t].err = NoErr
    /\ lv[t].execs = 2 /\ lv[t].reconns = 1

\* C6: the reconnect inside Run replaces only the transport: alias, host,
\* user, jump host and working directory of the Connection are the same
\* after it as before.
C6_ReconnectKeepsState ==
  [][\A t \in Threads :
       (pc[t] = "redial" /\ pc'[t] = "retry") =>
         LET c == lv[t].client IN
         /\ clients'[c].conn # clients[c].conn
         /\ clients'[c].alias = clients[c].alias
         /\ clients'[c].host = clients[c].host
         /\ clients'[c].user = clients[c].user
         /\ clients'[c].via = clients[c].via
         /\ clients'[c].cwd = clients[c].cwd
    ]_vars

\* Managers the Pool has created, and those its registry holds.
Created == 1..(nextMgr - 1)
Cached == {headerCache[k] : k \in Keys} \ {0}
NoReapYet == reaper.mgr = 0 /\ \A m \in Managers : closeCount[m] = 0

\* C2: before any entry is removed, every GetByHeader call with a key gets
\* the Manager the registry holds for that key, whatever the interleaving;
\* the registry holds exactly one Manager per key that was asked for, and no
\* Manager was created beside those.
C2_SameManagerPerKey ==
  NoReapYet =>
    /\ \A t \in Threads :
         (lv[t].op = "GetByHeader" /\ pc[t] \in {"g_touch", "done"}) =>
           (lv[t].m # 0 /\ headerCache[lv[t].key] = lv[t].m)
    /\ \A t1, t2 \in Threads :
         (/\ lv[t1].op = "GetByHeader" /\ pc[t1] = "done"
          /\ lv[t2].op = "GetByHeader" /\ pc[t2] = "done"
          /\ lv[t1].key = lv[t2].key) => lv[t1].m = lv[t2].m
    /\ Cardinality(Created) = Cardinality({k \in Keys : headerCache[k] # 0})
    /\ Cached = Created

\* A caller that missed on the fast path is about to look again under the
\* write lock, while another caller, whose result is already in hand, has
\* created the entry of that key in between.
C2_Witness ==
  /\ NoReapYet
  /\ \E t1, t2 \in Threads :
       /\ pc[t1] = "done" /\ lv[t1].op = "GetByHeader" /\ lv[t1].key = "foo" /\ lv[t1].m = 1
       /\ pc[t2] = "g_slow" /\ lv[t2].key = "foo"
       /\ headerCache["foo"] = 1

C11_ExplicitAliasPresent ==
  [][\A t \in Threads :
       LET m == lv[t].m
           existing == connections[m][lv[t].alias]
       IN (/\ pc[t] = "c_reserve" /\ pc'[t] # "c_reserve"
           /\ ~lv[t].reserved /\ existing # NoEntry) =>
            /\ pc'[t] = "done"
            /\ connections' = connections /\ primary' = primary /\ clients' = clients
            /\ IF /\ existing > NilClient
                  /\ clients[existing].host = lv[t].host
                  /\ clients[existing].user = lv[t].user
               THEN lv'[t].err = NoErr /\ lv'[t].alias = lv[t].alias
               ELSE lv'[t].err # NoErr /\ lv'[t].alias = ""
    ]_vars

\* A caller was refused the alias that a Connect still in its handshake has
\* reserved.
C11_Witness ==
  \E t1, t2 \in Threads :
    /\ pc[t1] = "done" /\ lv[t1].op = "Connect"
    /\ lv[t1].err = <<"alias is currently connecting/reserved">>
    /\ pc[t2] = "c_dial" /\ lv[t2].alias \in ExplicitAliases /\ ~lv[t2].reserved
    /\ connections[lv[t2].m][lv[t2].alias] = NilClient

\* A Connect in flight on Manager m that holds alias a: its reservation is in
\* the map, or was until something else removed it.
HoldsAlias(u, m, a) ==
  /\ lv[u].op = "Connect" /\ lv[u].m = m /\ lv[u].alias = a
  /\ \/ pc[u] \in {"c_prep", "c_dial", "c_store", "c_cleanup"}
     \/ pc[u] = "c_reserve" /\ lv[u].reserved

\* C12: when a Connect returns an error, primary is as it was and the alias
\* map holds no placeholder except those of other Connects still in flight:
\* nothing the failed call added remains.
C12_FailedConnectRecordsNothing ==
  [][\A t \in Threads :
       (pc[t] # "done" /\ pc'[t] = "done" /\ lv'[t].op = "Connect" /\ lv'[t].err # NoErr) =>
         /\ primary' = primary
         /\ LiveAliases(connections'[lv'[t].m]) = LiveAliases(connections[lv'[t].m])
         /\ \A a \in Aliases :
              connections'[lv'[t].m][a] = NilClient =>
                \E u \in Threads \ {t} : HoldsAlias(u, lv'[t].m, a)
    ]_vars

\* The generated names of u@h that Manager m does not hold.
FreeNames(m) == {i \in 1..MaxSuffix : connections[m][AutoName(i)] = NoEntry}

\* C13: a Connect without alias reserves user@host when that name is free,
\* else the free user@host-k with the smallest k up to the limit, and changes
\* nothing else in the map; when none of these names is free it returns an
\* error and leaves the map as it was.
C13_SmallestFreeOrError ==
  [][\A t \in Threads, m \in Managers, v \in Vias :
       ConnectCall(t, m, "h", "", v) =>
         IF FreeNames(m) = {}
         THEN /\ connections' = connections
              /\ pc'[t] = "done" /\ lv'[t].err # NoErr
         ELSE LET k == CHOOSE i \in FreeNames(m) : \A j \in FreeNames(m) : i <= j
              IN connections' = [connections EXCEPT ![m][AutoName(k)] = NilClient]
    ]_vars

\* C14: resolveTarget yields the current primary for a blank target and for
\* "primary" (an error when there is none), the target itself when the alias
\* map has an entry of that name, and a no-such-alias error otherwise; the
\* Manager is left as it was.
C14_ResolveTarget ==
  [][\A t \in Threads, m \in Managers, tg \in Targets, cmd \in Cmds :
       RunCall(t, m, tg, cmd) =>
         /\ UNCHANGED mgrVars
         /\ IF tg \in {"", "primary"}
            THEN IF primary[m] = ""
                 THEN pc'[t] = "done" /\ lv'[t].err = <<"no active connection">>
                 ELSE pc'[t] = "getlock" /\ lv'[t].alias = primary[m] /\ lv'[t].err = NoErr
            ELSE IF connections[m][tg] # NoEntry
                 THEN pc'[t] = "getlock" /\ lv'[t].alias = tg /\ lv'[t].err = NoErr
                 ELSE pc'[t] = "done" /\ lv'[t].err = <<"no connection with alias">>
    ]_vars

\* One call was refused for want of a primary; the other named an alias
\* whose map entry is a placeholder and had it resolved.
C14_Witness ==
  \E t1, t2 \in Threads :
    /\ pc[t1] = "done" /\ lv[t1].op = "Run" /\ lv[t1].err = <<"no active connection">>
    /\ pc[t2] = "getlock" /\ lv[t2].m = 1 /\ lv[t2].alias = "u@h"

\* C15: an execution that ends because the context was cancelled or its
\* deadline passed sends the kill signal, and the Run returns that error
\* with no result; the Clients (their CWD included) are as before, the call
\* neither reconnects nor executes again, and the Client mutex and the
\* per-alias lock are free afterwards.
C15_CancelledRun ==
  [][\A t \in Threads, err \in {ErrCanceled, ErrDeadline} :
       ClientRunEnd(t, err, 0) =>
         /\ pc'[t] = "done" /\ lv'[t].err = err /\ lv'[t].res = NoRes
         /\ lv'[t].signal = "KILL"
         /\ clients' = clients
         /\ lv'[t].execs = lv[t].execs /\ lv'[t].reconns = lv[t].reconns
         /\ cmu'[lv[t].client] = NoThread
         /\ LockOf(lv[t]) \notin locked'
    ]_vars

\* A command run in /tmp hit its deadline: the call returned the error and
\* the Connection is still in /tmp.
C15_Witness ==
  \E t \in Threads :
    /\ pc[t] = "done" /\ lv[t].op = "Run" /\ lv[t].err = ErrDeadline
    /\ lv[t].signal = "KILL" /\ lv[t].execs = 1
    /\ clients[lv[t].client].cwd = "/tmp"
    /\ LockOf(lv[t]) \notin locked

\* The per-alias locks thread t holds.
HeldBy(t) == IF pc[t] \in Critical THEN {LockOf(lv[t])} ELSE {}
InSync(t) == lv[t].sync /\ ~(pc[t] = "done" /\ lv[t].dest = "")

\* C16: concurrent sync calls between two aliases, in either direction, all
\* complete; every locked per-alias mutex is held by a call that is at work
\* on that alias, and no call holds two of them at a time (so no two locks
\* are ever acquired out of order, and a call waiting for a lock holds none).
C16_SyncCompletes ==
  /\ [](/\ locked = UNION {HeldBy(t) : t \in Threads}
        /\ \A t \in Threads : Cardinality(HeldBy(t)) <= 1
        /\ \A t \in Threads : pc[t] \in {"path", "getlock", "lock"} => HeldBy(t) = {})
  /\ \A t \in Threads : InSync(t) ~> ~InSync(t)

\* Two syncs in opposite directions are under way at once: one is reading
\* from a while the other is reading from u@h.
C16_Witness ==
  \E t1, t2 \in Threads :
    /\ lv[t1].sync /\ lv[t1].op = "ReadFile" /\ lv[t1].alias = "a" /\ lv[t1].dest = "u@h"
    /\ lv[t2].sync /\ lv[t2].op = "ReadFile" /\ lv[t2].alias = "u@h" /\ lv[t2].dest = "a"
    /\ pc[t1] = "io" /\ pc[t2] = "io"

\* The thread that takes the step, when it is a step of a call.
Acts(t) == pc'[t] # pc[t]
Returned(t, op) == pc[t] # "done" /\ pc'[t] = "done" /\ lv'[t].op = op
ClosedOnce(ms) == \A m \in ms \ {0} : closeCount'[m] = closeCount[m] + 1

C18_HeaderWins ==
  /\ [][\A t \in Threads :
          /\ (Returned(t, "GetByHeader") /\ ~globalMode /\ ~stopCleanup')
               => (lv'[t].m # 0 /\ lv'[t].m = headerCache'[lv'[t].key])
          /\ (Acts(t) /\ lv'[t].key # "") => managers' = managers]_vars
  /\ [](~stopCleanup =>
          \A t1, t2 \in Threads :
            (/\ pc[t1] = "done" /\ lv[t1].op = "GetByHeader"
             /\ pc[t2] = "done" /\ lv[t2].op = "GetByHeader"
             /\ lv[t1].key = lv[t2].key) => lv[t1].m = lv[t2].m)

\* Two requests with the key "foo" and different session IDs have got the same
\* header-keyed Manager, and the session registry is empty.
C18_Witness ==
  /\ ~globalMode /\ ~stopCleanup
  /\ \E t1, t2 \in Threads :
       /\ pc[t1] = "done" /\ lv[t1].op = "GetByHeader" /\ lv[t1].key = "foo" /\ lv[t1].sid = "s1"
       /\ pc[t2] = "done" /\ lv[t2].op = "GetByHeader" /\ lv[t2].key = "foo" /\ lv[t2].sid = "s2"
       /\ lv[t1].m = lv[t2].m /\ lv[t1].m # 0 /\ headerCache["foo"] = lv[t1].m
  /\ \A id \in SessionIds : managers[id] = 0

\* C19: in session-id mode Get returns what the session registry holds for the
\* ID and creates nothing (the handler of a request whose ID has no Manager
\* answers "No active session"); CreateSession leaves a Manager under the ID, the
\* one already there if there was one; DestroySession closes the Manager of
\* the ID and removes it; nothing else but Pool.Close changes the registry,
\* and the registry never holds a closed Manager. So Get(id) yields a Manager
\* exactly when the last of CreateSession(id), DestroySession(id) was a
\* CreateSession.
C19_SessionLifetime ==
  /\ [][\A t \in Threads : (pc[t] = "idle" /\ pc'[t] = "done" /\ ~globalMode) =>
          LET l == lv'[t]
              Others == \A id \in SessionIds \ {l.sid} : managers'[id] = managers[id]
          IN /\ l.op = "Get" => /\ l.m = managers[l.sid] /\ managers' = managers /\ nextMgr' = nextMgr
                                /\ (l.err = ErrNoSession) <=> (managers[l.sid] = 0)
             /\ l.op = "CreateSession" =>
                  /\ managers'[l.sid] # 0 /\ Others
                  /\ managers[l.sid] # 0 => (managers' = managers /\ nextMgr' = nextMgr)
             /\ l.op = "DestroySession" =>
                  /\ managers'[l.sid] = 0 /\ Others
                  /\ ClosedOnce({managers[l.sid]})]_vars
  /\ [][managers' # managers =>
          \E t \in Threads : \/ pc[t] = "p_sessions" /\ Acts(t)
                             \/ pc[t] = "idle" /\ lv'[t].op \in {"CreateSession", "DestroySession"}]_vars
  /\ [](\A id \in SessionIds : managers[id] # 0 => closeCount[managers[id]] = 0)

\* Get finds nothing for "s1", whose Manager was created and then destroyed
\* (closed once), while a CreateSession has left a second Manager under "s2".
C19_Witness ==
  /\ ~globalMode /\ ~stopCleanup
  /\ \E t1, t2 \in Threads :
       /\ pc[t1] = "done" /\ lv[t1].op = "Get" /\ lv[t1].sid = "s1" /\ lv[t1].m = 0
       /\ lv[t1].err = ErrNoSession
       /\ pc[t2] = "done" /\ lv[t2].op = "CreateSession" /\ lv[t2].sid = "s2"
  /\ managers["s1"] = 0 /\ managers["s2"] = 2 /\ closeCount[1] = 1

\* C20: in global mode every Get and every GetByHeader returns the one global
\* Manager, both registries stay empty whatever is called, no other Manager
\* is created, and no cleanup goroutine exists.
C20_GlobalMode ==
  [](globalMode =>
       /\ global # 0
       /\ \A t \in Threads :
            (pc[t] = "done" /\ lv[t].op \in {"Get", "GetByHeader"}) => lv[t].m = global
       /\ \A id \in SessionIds : managers[id] = 0
       /\ \A k \in Keys : headerCache[k] = 0
       /\ nextMgr = global + 1
       /\ reaper.pc = "none")

\* In global mode a hook has called CreateSession, DestroySession or
\* TouchHeader and a request has got the global Manager.
C20_Witness ==
  /\ globalMode /\ calls = MaxCalls
  /\ \E t1, t2 \in Threads :
       /\ pc[t1] = "done" /\ lv[t1].op \in {"CreateSession", "DestroySession", "TouchHeader"}
       /\ pc[t2] = "done" /\ lv[t2].op \in {"Get", "GetByHeader"} /\ lv[t2].m = global

\* What belongs to Manager m: its alias map, its primary and the CWD of each
\* of its Connections.
Tenant(m) == <<connections[m], primary[m], [c \in ClientIds |-> IF clients[c].m = m THEN clients[c].cwd ELSE ""]>>

\* C21: the Pool holds distinct Managers for distinct keys and returns distinct
\* Managers to callers with distinct keys, and none for the empty key; a step
\* of an operation on one Manager (Connect, Run, Disconnect, Close) changes
\* neither the alias map nor the primary nor a Connection's CWD of any other
\* Manager, also when both Managers hold the alias "a".
C21_TenantsIsolated ==
  /\ [](/\ \A k1, k2 \in Keys :
             (k1 # k2 /\ headerCache[k1] # 0) => headerCache[k1] # headerCache[k2]
        /\ \A t \in Threads :
             (pc[t] = "done" /\ lv[t].op = "GetByHeader") => (lv[t].m = 0 <=> lv[t].key = "")
        /\ \A t1, t2 \in Threads :
             (/\ pc[t1] = "done" /\ lv[t1].op = "GetByHeader" /\ lv[t1].key # ""
              /\ pc[t2] = "done" /\ lv[t2].op = "GetByHeader" /\ lv[t2].key # ""
              /\ lv[t1].key # lv[t2].key) => lv[t1].m # lv[t2].m)
  /\ [][\A t \in Threads : Acts(t) =>
          \A m \in Managers \ {lv[t].m, lv'[t].m} : Tenant(m)' = Tenant(m)]_vars

\* Both tenants hold a live "a"; a Run of the first tenant has moved its "a" to
\* /tmp and has returned, and the "a" of the second is still in its home.
C21_Witness ==
  /\ headerCache["foo"] = 1 /\ headerCache["bar"] = 2
  /\ connections[1]["a"] > NilClient /\ connections[2]["a"] > NilClient
  /\ clients[connections[1]["a"]].cwd = "/tmp"
  /\ clients[connections[2]["a"]].cwd = HomeDir
  /\ \E t \in Threads : pc[t] = "done" /\ lv[t].op = "Run" /\ lv[t].m = 1 /\ lv[t].err = NoErr

\* C22: the transport of a Connection that has a jump host (via) is always one
\* opened through the jump Connection's transport, after Connect and after
\* every reconnect, and a dial for such a Connection that finds the jump alias
\* missing, reserved or disconnected fails.
C22_ViaThroughJump ==
  /\ [](\A c \in Allocated :
          (clients[c].via # "" /\ clients[c].conn # 0) => clients[c].through # 0)
  /\ [][\A t \in Threads :
          (/\ pc[t] \in {"c_dial", "redial"} /\ Acts(t)
           /\ lv[t].via # "" \/ (lv[t].client # 0 /\ clients[lv[t].client].via # "")
           /\ Lookup(lv[t].m, IF lv[t].op = "Run" THEN clients[lv[t].client].via ELSE lv[t].via)
                = NilClient)
            => lv'[t].err # NoErr]_vars

Requests == {"Run", "Connect"} \cup FileOps
InFlight(m) == {t \in Threads : lv[t].op \in Requests /\ lv[t].m = m /\ pc[t] # "done"}

\* C23: a request (Run, file operation, Connect) that was in flight on a
\* Manager when Manager.Close closed it returns an error, and when no request
\* is in flight any more the closed Manager holds no live connection: no
\* alias in its map and no open transport of a Client of it.
C23_CloseEndsRequests ==
  /\ [][\A t \in Threads :
          (Acts(t) /\ pc'[t] = "done" /\ lv'[t].op \in Requests /\ ~Open(lv'[t].m))
            => lv'[t].err # NoErr]_vars
  /\ [](\A m \in Managers :
          (~Open(m) /\ InFlight(m) = {}) =>
            /\ Present(m) = {}
            /\ \A c \in Allocated : clients[c].m = m => clients[c].conn = 0)

Contains(s, sub) == \E i \in 1..(Len(s) - Len(sub) + 1) : SubSeq(s, i, i + Len(sub) - 1) = sub
StartsWith(s, pre) == Len(pre) <= Len(s) /\ SubSeq(s, 1, Len(pre)) = pre
EndsWith(s, suf) == Len(suf) <= Len(s) /\ SubSeq(s, Len(s) - Len(suf) + 1, Len(s)) = suf

\* The text the claim describes, before the cut at the byte limit.
Described(r) == (IF r.Stdout = <<>> /\ r.Stderr = <<>> THEN NoOutput
                 ELSE IF r.Stdout # <<>> /\ r.Stderr # <<>> THEN r.Stdout \o <<"\n">> \o r.Stderr
                 ELSE r.Stdout \o r.Stderr)
                \o (IF r.ExitCode # 0 THEN <<"\n">> \o ExitCode(r.ExitCode) ELSE <<>>)

\* C24: for every RunResult Execute returns stdout, then stderr on a new line
\* when both are non-empty, "(No output)" when both are empty, with
\* "[Exit Code: N]" appended when N is not 0; a text longer than the byte limit
\* is cut at the limit and ends with the truncation marker; and a non-zero
\* exit code is always visible in the returned text.
C24_ExecuteText ==
  \A t \in Threads : (pc[t] = "done" /\ lv[t].op = "Execute") =>
    LET r == lv[t].result
        out == lv[t].output
    IN /\ Len(Described(r)) <= maxBytes => out = Described(r)
       /\ Len(Described(r)) > maxBytes =>
            (out = SubSeq(Described(r), 1, maxBytes) \o Truncated)
       /\ r.ExitCode # 0 => Contains(out, ExitCode(r.ExitCode))

\* The directory a path names when followed from the root: "." stays, ".."
\* goes to the parent (the root is its own parent), a name goes down.
RECURSIVE Follow(_, _)
Follow(dir, elems) ==
  IF elems = <<>> THEN dir
  ELSE Follow(IF Head(elems) = "." THEN dir
              ELSE IF Head(elems) = ".." THEN SubSeq(dir, 1, Len(dir) - 1)
              ELSE Append(dir, Head(elems)),
              Tail(elems))
Normalized(path) == \A i \in 1..Len(path.elems) : path.elems[i] \notin {".", ".."}

\* C25: resolvePath returns, for every path and every CWD, without an error,
\* an absolute path with no "." and no ".." in it, which names the place the
\* input names: the input itself when it is absolute, else the input followed
\* from the CWD.
C25_ResolvePath ==
  \A t \in Threads : (pc[t] = "done" /\ lv[t].op = "resolvePath") =>
    LET l == lv[t]
    IN /\ l.err = NoErr
       /\ l.resolved.abs
       /\ Normalized(l.resolved)
       /\ l.resolved.elems = Follow(IF l.path.abs THEN <<>> ELSE l.cwd.elems, l.path.elems)

\* The allowed root of the Manager of TestManagerValidatePath, "/data".
AllowedRoot == <<"data">>
Inside(root, path) == path.abs /\ StartsWith(path.elems, root)

\* C26: path validation rejects every path that, resolved against the CWD and
\* normalized, lies outside the Manager's allowed root, and every path it
\* accepts lies under the allowed root.
C26_PathValidation ==
  \A t \in Threads : (pc[t] = "done" /\ lv[t].op = "resolvePath") =>
    /\ ~Inside(AllowedRoot, lv[t].resolved) => lv[t].err # NoErr
    /\ lv[t].err = NoErr => Inside(AllowedRoot, lv[t].resolved)

\* The method the options call for: the explicit key, else the password, else
\* the Key Store's identity.
Chosen(opts) ==
  IF opts.PrivateKeyPath # "" THEN [method |-> "publickey", key |-> "explicit"]
  ELSE IF opts.Password # "" THEN [method |-> "password", key |-> opts.Password]
  ELSE [method |-> "publickey", key |-> "system"]

\* C27: the authentication methods offered for a Connection are exactly one
\* method: the explicit private key when a key path is given, else the
\* password when one is given, else the Key Store identity; a key and a
\* password are never offered together.
C27_OneAuthMethod ==
  \A t \in Threads : (pc[t] = "done" /\ lv[t].op = "Connect" /\ lv[t].err = NoErr) =>
    lv[t].auth = <<Chosen(lv[t].opts)>>

\* A call that omits its required argument, and one whose target resolved to
\* no alias.
Omits(t) == lv[t].args.tool # "" /\ lv[t].args.required = <<>>
Unresolved(t) == lv[t].args.tool # "" /\ lv[t].alias = ""
Untouched(t) == /\ pc[t] = "done"
                /\ lv[t].err # NoErr
                /\ lv[t].lock = 0 /\ lv[t].client = 0 /\ lv[t].execs = 0 /\ lv[t].reconns = 0

\* C28: a tool call that omits a required argument or names an unresolvable
\* target is rejected with an error before any Manager operation touches a
\* connection or changes Manager state.
C28_RejectedBeforeManager ==
  /\ [](\A t \in Threads : (Omits(t) \/ Unresolved(t)) => Untouched(t))
  /\ [][\A t \in Threads : (Acts(t) /\ (Omits(t)' \/ Unresolved(t)')) =>
          /\ connections' = connections /\ primary' = primary /\ clients' = clients
          /\ aliasLocks' = aliasLocks /\ locked' = locked]_vars

\* A thread inside Disconnect or Close whose next Client.Close has to wait for
\* the Client mutex, which a command in flight holds; and a thread on the
\* network (a command in flight, a dial).
WaitsForClient(t) ==
  /\ pc[t] = "d_close"
  /\ \E a \in lv[t].todo :
       LET c == connections[lv[t].m][a]
       IN c > NilClient /\ cmu[c] # NoThread
OnNetwork(t) == pc[t] \in {"exec", "reexec", "c_dial", "redial", "io"}

\* C29: no Manager map lock is held while its holder performs or waits on
\* network I/O or waits for an in-flight operation of a Connection; hence
\* while a Run is blocked on alias A, Disconnect or Close notwithstanding, the
\* Manager lock that operations on other aliases need is free or is held by
\* a thread that is not waiting for A's Run.
C29_NoMapLockWhileBlocked ==
  \A m \in Managers, t \in Threads :
    mu[m] = t => ~WaitsForClient(t) /\ ~OnNetwork(t)

\* A file operation that holds the lock of its alias, and the directory its
\* Connection is in (the one the preceding holder of the lock left).
FileLocked(t) == lv[t].op \in FileOps /\ pc[t] \in {"lookup", "sftp", "io"}
CwdOf(t) == LET c == Lookup(lv[t].m, lv[t].alias)
            IN IF c = NilClient THEN "" ELSE clients[c].cwd

\* C30: a file operation given a relative path resolves it against the CWD
\* left by the operation that immediately precedes it in the per-alias lock
\* order on the same alias, in every interleaving with concurrent Runs that
\* change the directory: the path it works on under the lock is its path
\* resolved against the CWD the Connection has then.
C30_FileSeesPrecedingCwd ==
  \A t \in Threads :
    FileLocked(t) => lv[t].path \in {resolvePath(CwdOf(t), p) : p \in Paths}

\* The idle time of the entry that owns Manager m.
IdleTime(m) == now - lastAccessed[m]

\* C31: the reaper removes a header entry only if its idle time exceeds the
\* timeout when the reaper looks at it again under the write lock: an entry
\* that was collected by the first pass and touched since is left in the
\* registry, and the reaper closes no Manager but the one it just removed.
C31_ReapOnlyExpired ==
  [][reaper' # reaper =>
       \A k \in Keys :
         /\ (headerCache[k] # 0 /\ headerCache'[k] = 0) =>
              (IdleTime(headerCache[k]) > Timeout /\ reaper'.mgr = headerCache[k])
         /\ (reaper.pc = "remove" /\ k \in reaper.toRemove /\ k \notin reaper'.toRemove
             /\ headerCache[k] # 0 /\ IdleTime(headerCache[k]) <= Timeout) =>
              (headerCache'[k] = headerCache[k] /\ reaper'.mgr = 0
               /\ closeCount' = closeCount)
         /\ \A m \in Managers : closeCount'[m] # closeCount[m] =>
              (reaper.pc = "close" /\ m = reaper.mgr /\ \A j \in Keys : headerCache[j] # m)
    ]_vars

\* The first pass collected the entry of a key, a request touched it, and the
\* reaper is about to look at it again.
C31_Witness ==
  \E k \in Keys :
    /\ reaper.pc = "remove" /\ k \in reaper.toRemove
    /\ headerCache[k] # 0 /\ IdleTime(headerCache[k]) <= Timeout
    /\ \E t \in Threads : pc[t] = "done" /\ lv[t].op = "GetByHeader" /\ lv[t].key = k

\* C35: every Manager returned by GetByHeader(k) is, at the moment of return,
\* the Manager registered under k in the header registry and has not been
\* removed and closed by the reaper, in every interleaving of GetByHeader
\* with a concurrent reap.
C35_ReturnedIsRegistered ==
  [][~stopCleanup =>
       \A t \in Threads :
         (lv[t].op = "GetByHeader" /\ pc[t] \in {"g_touch", "g_slow"} /\ pc'[t] = "done") =>
           /\ headerCache'[lv[t].key] = lv'[t].m
           /\ closeCount'[lv'[t].m] = 0
           /\ reaper'.mgr # lv'[t].m
    ]_vars

\* C33: for every string s, shellQuote(s) is one single-quoted shell word
\* that the shell evaluates back to exactly s: the empty string gives '',
\* each single quote of s becomes the sequence ' " ' " ', and no character
\* of s is interpreted by the shell.
C33_ShellQuoteRoundTrip ==
  \A t \in Threads : (pc[t] = "done" /\ lv[t].op = "shellQuote") =>
    LET s == lv[t].arg
        q == lv[t].output
    IN /\ Shell(q) = <<Word(s)>>
       /\ s = <<>> => q = <<Quote, Quote>>
       /\ Head(q) = Quote /\ q[Len(q)] = Quote
       /\ Len(q) = Len(s) + 2 + 4 * Cardinality({i \in 1..Len(s) : s[i] = Quote})

\* A string with a single quote, an operator and an expansion sign was quoted.
C33_Witness ==
  \E t \in Threads :
    /\ pc[t] = "done" /\ lv[t].op = "shellQuote"
    /\ lv[t].arg = <<Quote, ";", "$">>
    /\ lv[t].output = <<Quote, Quote, DQuote, Quote, DQuote, Quote, ";", "$", Quote>>

\* The kinds of the tokens of a command, and the same edit with harmless
\* arguments (the sed delimiter keeps its escape).
Shape(tokens) == [i \in 1..Len(tokens) |-> tokens[i].kind]
Plain(s) == IF s = <<>> THEN <<>> ELSE <<"a">>
Harmless(e) == [e EXCEPT !.path = <<"f">>, !.text = Plain(@), !.with = Plain(@)]
Interpreted(tokens) == \E i \in 1..Len(tokens) : \E j \in 1..Len(tokens[i].text) :
                         tokens[i].text[j] = Expansion

\* C32: every shell command composed by the edit tool keeps the user-supplied
\* text inside quoting: whatever old_text, new_text, pattern, replacement,
\* content and path hold, the shell reads the command as the same words and
\* operators as for harmless arguments (the sed script is one word, the path
\* is one word that is the path itself), with no unterminated quote and no
\* expansion.
C32_EditKeepsQuoting ==
  \A t \in Threads : (pc[t] = "done" /\ lv[t].op = "edit" /\ lv[t].err = NoErr) =>
    LET e == lv[t].edit
        tokens == Shell(lv[t].output)
        plain == Shell(EditCommand(Harmless(e)))
    IN /\ Shape(tokens) = Shape(plain)
       /\ ~Interpreted(tokens)
       /\ \E i \in 1..Len(tokens) : tokens[i] = Word(e.path)

Removed(m, c) == \A a \in Aliases : connections[m][a] # c

C36_NoReopenAfterDisconnect ==
  \A t, u \in Threads :
    (/\ pc[t] = "done" /\ lv[t].op = "Disconnect" /\ lv[t].err = NoErr
     /\ pc[u] = "done" /\ lv[u].op = "Run" /\ lv[u].reconns > 0
     /\ lv[u].m = lv[t].m /\ lv[u].alias = lv[t].target
     /\ Removed(lv[u].m, lv[u].client))
    => clients[lv[u].client].conn = 0

\* C37: a ReadFile, WriteFile or ListDir that finds no Client under its alias
\* (the entry is the reservation of a Connect in flight, or the alias was
\* removed after the target was resolved) returns an error, as Run does; it
\* never dereferences the missing Client.
NilDereference == <<"panic: nil pointer dereference">>

C37_FileOpsCheckClient ==
  \A t \in Threads : lv[t].op \in FileOps => lv[t].err # NilDereference

\* C38: the sub-channel that SFTP() hands to a file operation is one opened on
\* the transport the Client has at that moment, also after a reconnect has
\* replaced the transport: never the memoized sub-channel of an old transport.
C38_SftpOnCurrentTransport ==
  [][\A t \in Threads :
       (pc[t] = "sftp" /\ pc'[t] = "io")
       => lv'[t].chan = clients'[lv'[t].client].conn]_vars

\* C39: when Connect returns an alias without an error, the alias names a
\* Client of the Manager whose transport is connected at that moment (no
\* reconnect of it being under way), also when the alias existed already for
\* the same user and host and an earlier reconnect of its Client had failed.
Redialling(c) == \E u \in Threads : pc[u] = "redial" /\ lv[u].client = c

C39_ConnectReturnsConnected ==
  [][\A t \in Threads :
       (/\ lv[t].op = "Connect" /\ Acts(t)
        /\ pc'[t] = "done" /\ lv'[t].err = NoErr)
       => LET c == connections'[lv'[t].m][lv'[t].alias]
          IN /\ c > NilClient
             /\ ~Redialling(c) => clients'[c].conn # 0]_vars

\* C40: a Run whose context was cancelled, or whose deadline had passed,
\* before it obtained the per-alias lock starts no command on the remote host
\* and returns the error of the context.
QueuedWhenDone(t) ==
  /\ lv[t].op = "Run"
  /\ lv[t].ctx.err # NoErr
  /\ lv[t].ctx.at \in {"getlock", "lock"}

C40_NoStartAfterCancel ==
  [][\A t \in Threads :
       (QueuedWhenDone(t) /\ Acts(t) /\ pc[t] # "done")
       => /\ lv'[t].execs = 0
          /\ pc'[t] = "done" => lv'[t].err = lv[t].ctx.err]_vars

====
